---- MODULE Spec2Model ----
(***************************************************************************)
(* A model of the project wizard's provisioning pipeline                   *)
(* (src/src/app/api/createProject/route.ts): the POST handler with its     *)
(* stages, and the structure-preserving merge of app_config.json.          *)
(***************************************************************************)
EXTENDS Integers, Sequences, FiniteSets, TLC

(***************************************************************************)
(* JSON values as JavaScript sees them.  Every value is a record of the    *)
(* same shape, so that values of different kinds can be compared.          *)
(* An object is the ordered list of its members (JavaScript keeps the      *)
(* insertion order of string keys); an array is an object whose keys are   *)
(* its indices.                                                            *)
(***************************************************************************)
Undefined == [tag |-> "undefined", str |-> "", members |-> <<>>]

Null == [tag |-> "null", str |-> "", members |-> <<>>]

Str(s) == [tag |-> "string", str |-> s, members |-> <<>>]

Obj(m) == [tag |-> "object", str |-> "", members |-> m]

Arr(m) == [tag |-> "array", str |-> "", members |-> m]

Member(key, value) == [k |-> key, v |-> value]

IsObject(x) == x.tag \in {"object", "array"}

\* JavaScript truthiness of a JSON value
Truthy(x) == IsObject(x) \/ (x.tag = "string" /\ x.str # "")

Min(S) == CHOOSE n \in S : \A m \in S : n <= m

Range(seq) == {seq[i] : i \in 1..Len(seq)}

\* position of key k among the members of x, 0 when x has no such member
IndexOf(x, key) ==
  LET idx == {i \in 1..Len(x.members) : x.members[i].k = key}
  IN IF idx = {} THEN 0 ELSE Min(idx)

\* x[key] / x.key : undefined when x is a primitive or has no such member
Get(x, key) ==
  IF IsObject(x) /\ IndexOf(x, key) # 0
  THEN x.members[IndexOf(x, key)].v
  ELSE Undefined

\* x.key = value : in place when the key exists, appended otherwise
Put(x, key, value) ==
  IF IndexOf(x, key) # 0
  THEN [x EXCEPT !.members[IndexOf(x, key)].v = value]
  ELSE [x EXCEPT !.members = Append(@, Member(key, value))]

\* a || undefined
OrUndefined(x) == IF Truthy(x) THEN x ELSE Undefined

\* a || null
OrNull(x) == IF Truthy(x) THEN x ELSE Null

(***************************************************************************)
(* Files.  A file's bytes are modelled by its format, its indentation and  *)
(* the value it holds; two files are byte-identical iff the three agree.   *)
(***************************************************************************)
NoFile == [fmt |-> "absent", indent |-> 0, value |-> Undefined]

File(fmt, indent, value) == [fmt |-> fmt, indent |-> indent, value |-> value]

\* JSON.parse throws on anything that is not JSON text
ParseThrows(text) == text.fmt # "json"

JSONparse(text) == text.value

\* JSON.stringify leaves out the members whose value is undefined
RECURSIVE Serializable(_)
Serializable(x) ==
  IF ~IsObject(x) THEN x
  ELSE LET kept == SelectSeq(x.members, LAMBDA m : m.v # Undefined)
       IN [x EXCEPT !.members =
             [i \in 1..Len(kept) |-> Member(kept[i].k, Serializable(kept[i].v))]]

\* JSON.stringify(value, null, 2)
JSONstringify(value) == File("json", 2, Serializable(value))

existingConfigPath == "assets/config/app_config.json"

appConfigTsPath == "lib/app_config.ts"

iosConfigPath == "ios/Runner/GoogleService-Info.plist"

androidConfigPath == "android/app/google-services.json"

webConfigPath == "web/firebase-config.js"

iosProjectFile == "ios/Runner.xcodeproj/project.pbxproj"

androidManifestFile == "android/app/src/main/AndroidManifest.xml"

Paths ==
  {existingConfigPath, appConfigTsPath, iosConfigPath, androidConfigPath,
   webConfigPath, "firebase.json", "firestore.indexes.json",
   "lib/firebase_config.dart", "firestore.rules", "pubspec.yaml",
   "android/app/build.gradle", iosProjectFile, "ios/Runner/Info.plist",
   "web/index.html", "README.md", "storage.rules", androidManifestFile}

\* the file system of the workspace: the files and the log of the writes
existsSync(fs, path) == fs.content[path] # NoFile

readFileSync(fs, path) == fs.content[path]

writeFileSync(fs, path, text) ==
  [content |-> [fs.content EXCEPT ![path] = text],
   writes  |-> Append(fs.writes, path)]

\* A text file is the sequence of its pieces: the placeholder
\* mytemplate-app, the prefix com.meghzone. of the template's package
\* identifier, and the text between them.  A project name is one piece, so
\* the names looked at are the placeholder itself or do not contain it.
TextFile(pieces) ==
  File("text", 0, Arr([i \in 1..Len(pieces) |-> Member("", Str(pieces[i]))]))

Pieces(file) == [i \in 1..Len(file.value.members) |-> file.value.members[i].v.str]

Placeholder == "mytemplate-app"

PackagePrefix == "com.meghzone."

(***************************************************************************)
(* updateAppConfigJson: the merge of the downloaded Firebase configuration *)
(* into the existing assets/config/app_config.json.                        *)
(***************************************************************************)
\* appIds.x && appIds.x !== 'unknown'
Known(appId) == appId # "" /\ appId # "unknown"

\* content.match(/<key>FIELD<\/key>\s*<string>([^<]+)<\/string>/) and
\* content.match(/"field":\s*"([^"]+)"/): the capture of the first entry of
\* that name with a non-empty text, null when there is none
Match(content, field) ==
  LET m   == content.value.members
      idx == {i \in 1..Len(m) :
                m[i].k = field /\ m[i].v.tag = "string" /\ m[i].v.str # ""}
  IN IF idx = {} THEN Null ELSE Str(m[Min(idx)].v.str)

StorageBucket(projectId) == projectId \o ".firebasestorage.app"

BundleId(orgDomain, projectName) == "com." \o orgDomain \o "." \o projectName

\* the outcome of a step of the merge: the document, and whether the step threw
Done(cfg) == [threw |-> FALSE, cfg |-> cfg]

Thrown(cfg) == [threw |-> TRUE, cfg |-> cfg]

\* the app name and, as well, the app description are set
UpdateAppNameAndDescription(existingConfig, projectName) ==
  IF existingConfig.tag \in {"null", "undefined"} THEN Thrown(existingConfig)
  ELSE LET app == Get(existingConfig, "app")
       IN IF app.tag \notin {"null", "undefined"} /\ Get(app, "name") # Undefined
          THEN Done(Put(existingConfig, "app",
                        Put(Put(app, "name", Str(projectName)),
                            "description", Str(projectName))))
          ELSE Done(existingConfig)

\* if (existingConfig.app?.name !== undefined) existingConfig.app.name = projectName
UpdateAppName(existingConfig, projectName) ==
  IF existingConfig.tag \in {"null", "undefined"} THEN Thrown(existingConfig)
  ELSE LET app == Get(existingConfig, "app")
       IN IF app.tag \notin {"null", "undefined"} /\ Get(app, "name") # Undefined
          THEN Done(Put(existingConfig, "app", Put(app, "name", Str(projectName))))
          ELSE Done(existingConfig)

\* if (found && section.key !== undefined) section.key = value
SetExisting(section, key, found, value) ==
  IF found /\ Get(section, key) # Undefined THEN Put(section, key, value) ELSE section

\* the storage bucket is derived from the project id the section held
UpdateIosKeysStale(ios, iosConfigContent, projectId, projectName, orgDomain) ==
  SetExisting(
    SetExisting(
      SetExisting(
        SetExisting(
          SetExisting(
            SetExisting(ios, "apiKey",
                        Match(iosConfigContent, "API_KEY") # Null,
                        Match(iosConfigContent, "API_KEY")),
            "messagingSenderId",
            Match(iosConfigContent, "GCM_SENDER_ID") # Null,
            Match(iosConfigContent, "GCM_SENDER_ID")),
          "appId",
          Match(iosConfigContent, "GOOGLE_APP_ID") # Null,
          Match(iosConfigContent, "GOOGLE_APP_ID")),
        "projectId", TRUE, Str(projectId)),
      "storageBucket", TRUE, Str(StorageBucket(Get(ios, "projectId").str))),
    "iosBundleId", TRUE, Str(BundleId(orgDomain, projectName)))

\* the six guarded assignments to existingConfig.firebase.ios, the first of
\* the code innermost
UpdateIosKeys(ios, iosConfigContent, projectId, projectName, orgDomain) ==
  SetExisting(
    SetExisting(
      SetExisting(
        SetExisting(
          SetExisting(
            SetExisting(ios, "apiKey",
                        Match(iosConfigContent, "API_KEY") # Null,
                        Match(iosConfigContent, "API_KEY")),
            "messagingSenderId",
            Match(iosConfigContent, "GCM_SENDER_ID") # Null,
            Match(iosConfigContent, "GCM_SENDER_ID")),
          "appId",
          Match(iosConfigContent, "GOOGLE_APP_ID") # Null,
          Match(iosConfigContent, "GOOGLE_APP_ID")),
        "projectId", TRUE, Str(projectId)),
      "storageBucket", TRUE, Str(StorageBucket(projectId))),
    "iosBundleId", TRUE, Str(BundleId(orgDomain, projectName)))

UpdateIos(existingConfig, fs, projectId, projectName, orgDomain, appIds) ==
  LET firebase == Get(existingConfig, "firebase")
      ios      == Get(firebase, "ios")
  IN IF Truthy(firebase) /\ Truthy(ios) /\ Known(appIds.ios)
        /\ existsSync(fs, iosConfigPath)
     THEN Done(Put(existingConfig, "firebase",
                   Put(firebase, "ios",
                       UpdateIosKeys(ios, readFileSync(fs, iosConfigPath),
                                     projectId, projectName, orgDomain))))
     ELSE Done(existingConfig)

\* the guarded assignments to existingConfig.firebase.android, the first of
\* the code innermost
UpdateAndroidKeys(android, androidConfig, projectId) ==
  LET project_info == Get(androidConfig, "project_info")
      client       == Get(androidConfig, "client")
      client_info  == Get(Get(client, "0"), "client_info")
  IN SetExisting(
       SetExisting(
         SetExisting(
           SetExisting(
             SetExisting(android, "apiKey", Truthy(project_info),
                         OrNull(Get(project_info, "api_key"))),
             "messagingSenderId", Truthy(project_info),
             OrNull(Get(project_info, "project_number"))),
           "appId",
           Truthy(client) /\ Truthy(Get(client, "0")) /\ Truthy(client_info),
           OrNull(Get(client_info, "mobilesdk_app_id"))),
         "projectId", TRUE, Str(projectId)),
       "storageBucket", TRUE, Str(StorageBucket(projectId)))

UpdateAndroid(existingConfig, fs, projectId, appIds) ==
  LET firebase == Get(existingConfig, "firebase")
      android  == Get(firebase, "android")
      androidConfigContent == readFileSync(fs, androidConfigPath)
  IN IF Truthy(firebase) /\ Truthy(android) /\ Known(appIds.android)
        /\ existsSync(fs, androidConfigPath)
     THEN IF ParseThrows(androidConfigContent)
             \/ JSONparse(androidConfigContent).tag = "null"
          THEN Thrown(existingConfig)
          ELSE Done(Put(existingConfig, "firebase",
                        Put(firebase, "android",
                            UpdateAndroidKeys(android,
                                              JSONparse(androidConfigContent),
                                              projectId))))
     ELSE Done(existingConfig)

WebKeys ==
  <<"apiKey", "authDomain", "projectId", "storageBucket", "messagingSenderId",
    "appId", "measurementId">>

\* if (xMatch) existingConfig.firebase.web.x = xMatch[1], for the seven keys in turn
RECURSIVE UpdateWebKeys(_, _, _)
UpdateWebKeys(web, webConfigContent, n) ==
  IF n = 0 THEN web
  ELSE LET prev  == UpdateWebKeys(web, webConfigContent, n - 1)
           match == Match(webConfigContent, WebKeys[n])
       IN IF match # Null THEN Put(prev, WebKeys[n], match) ELSE prev

\* an assignment to a property of a primitive throws (module code is strict)
WebAssigns(webConfigContent) ==
  \E n \in 1..Len(WebKeys) : Match(webConfigContent, WebKeys[n]) # Null

\* the Web section is made when the document has none
UpdateWebCreated(existingConfig, fs, appIds) ==
  LET firebase == Get(existingConfig, "firebase")
      web      == Get(firebase, "web")
      webConfigContent == readFileSync(fs, webConfigPath)
  IN IF Truthy(firebase) /\ Known(appIds.web) /\ existsSync(fs, webConfigPath)
     THEN IF Truthy(web) /\ ~IsObject(web) /\ WebAssigns(webConfigContent)
          THEN Thrown(existingConfig)
          ELSE Done(Put(existingConfig, "firebase",
                        Put(firebase, "web",
                            UpdateWebKeys(IF Truthy(web) THEN web ELSE Obj(<<>>),
                                          webConfigContent, Len(WebKeys)))))
     ELSE Done(existingConfig)

UpdateWeb(existingConfig, fs, appIds) ==
  LET firebase == Get(existingConfig, "firebase")
      web      == Get(firebase, "web")
      webConfigContent == readFileSync(fs, webConfigPath)
  IN IF Truthy(firebase) /\ Truthy(web) /\ Known(appIds.web)
        /\ existsSync(fs, webConfigPath)
     THEN IF ~IsObject(web) /\ WebAssigns(webConfigContent)
          THEN Thrown(existingConfig)
          ELSE Done(Put(existingConfig, "firebase",
                        Put(firebase, "web",
                            UpdateWebKeys(web, webConfigContent, Len(WebKeys)))))
     ELSE Done(existingConfig)

\* a step of the merge runs unless an earlier one threw
IosStep(before, fs, projectId, projectName, orgDomain, appIds) ==
  IF before.threw THEN before
  ELSE UpdateIos(before.cfg, fs, projectId, projectName, orgDomain, appIds)

AndroidStep(before, fs, projectId, appIds) ==
  IF before.threw THEN before ELSE UpdateAndroid(before.cfg, fs, projectId, appIds)

WebStep(before, fs, appIds) ==
  IF before.threw THEN before ELSE UpdateWeb(before.cfg, fs, appIds)

\* the updates of the parsed document, in the order of the code: the app
\* name, then the iOS, the Android and the Web section
MergeDocument(existingConfig, fs, projectId, projectName, orgDomain, appIds) ==
  WebStep(
    AndroidStep(
      IosStep(UpdateAppName(existingConfig, projectName),
              fs, projectId, projectName, orgDomain, appIds),
      fs, projectId, appIds),
    fs, appIds)

\* the generated lib/app_config.ts embeds JSON.stringify(existingConfig, null, 2)
TypescriptInterface(existingConfig) == File("ts", 2, Serializable(existingConfig))

\* a missing file is created with an empty structure
OnMissingConfigCreated(fs) ==
  writeFileSync(writeFileSync(fs, existingConfigPath, JSONstringify(Obj(<<>>))),
                appConfigTsPath, TypescriptInterface(Obj(<<>>)))

\* if (!fs.existsSync(existingConfigPath)) return
OnMissingConfig(fs) == fs

\* a file that does not parse is replaced by an empty structure
OnUnparsableConfigReset(fs) ==
  writeFileSync(fs, existingConfigPath, JSONstringify(Obj(<<>>)))

\* catch of the read and parse of the existing file: log and return
OnUnparsableConfig(fs) == fs

\* the outer catch writes an empty document
OnMergeErrorReset(fs) ==
  writeFileSync(fs, existingConfigPath, JSONstringify(Obj(<<>>)))

\* the outer catch: log, do not rethrow
OnMergeError(fs) == fs

\* the write-back of the document and of the generated TypeScript view
WriteBack(fs, existingConfig) ==
  writeFileSync(writeFileSync(fs, existingConfigPath, JSONstringify(existingConfig)),
                appConfigTsPath, TypescriptInterface(existingConfig))

\* updateAppConfigJson returns normally on every path; the result names the
\* file system it leaves and the path it took
updateAppConfigJson(fs, projectId, projectName, orgDomain, appIds) ==
  IF ~existsSync(fs, existingConfigPath)
  THEN [fs |-> OnMissingConfig(fs), outcome |-> "missing"]
  ELSE IF ParseThrows(readFileSync(fs, existingConfigPath))
  THEN [fs |-> OnUnparsableConfig(fs), outcome |-> "unparsable"]
  ELSE LET merged == MergeDocument(JSONparse(readFileSync(fs, existingConfigPath)),
                                   fs, projectId, projectName, orgDomain, appIds)
       IN IF merged.threw
          THEN [fs |-> OnMergeError(fs), outcome |-> "error"]
          ELSE [fs |-> WriteBack(fs, merged.cfg), outcome |-> "written"]

(***************************************************************************)
(* State.                                                                  *)
(***************************************************************************)
VARIABLES
  projectName,        \* the request's projectName, as its characters
  orgDomain,          \* the request's orgDomain, as its characters
  request,            \* the request's templateRepo, templateBranch, firebaseAccount
  githubToken,        \* process.env.GITHUB_PAT
  template,           \* the files of the template repository's branch
  pc,                 \* where the POST handler stands
  workspace,          \* tempDir: "none", "exists" or "removed"
  fs,                 \* the workspace: its files and the log of the writes
  head,               \* the files of the clone's last commit
  firebaseProjectId,  \* the id createFirebaseProject returned
  appIds,             \* the identifiers createFirebaseApps has extracted
  configs,            \* downloadFirebaseConfigs: the downloaded payloads
  attempts,           \* createFirebaseProject: the ids tried, and how each ended
  delays,             \* createFirebaseProject: the waits made, each after an attempt
  created,            \* what exists at Firebase and at GitHub: the project, its apps, the repository
  githubUrl,          \* the URL cloneTemplateRepository returned
  newRepoUrl,         \* the URL createPrivateRepository returned
  response,           \* the response returned to the caller
  stages,             \* the stages started, in order
  history,            \* the runs of updateAppConfigJson: file system before and after
  calls,              \* the external commands and requests issued, in order
  remotes,            \* the clone's git remotes: the URL of each
  pushes,             \* what each repository has received by git push
  tags,               \* the clone's tags: those git rev-parse found, and those made
  invocations,        \* concurrent POST invocations: where each stands, and its tempDir
  clock,              \* Date.now()
  cwd,                \* process.cwd(), which shell.cd sets for the whole process
  dirs,               \* the directories under os.tmpdir()/project-wizard
  effects,            \* the file and git operations made: by which invocation, in which directory
  drawn,              \* createFirebaseProject alone: the ids and display names generated
  extraction,         \* extractAppId alone: an output and what was extracted from it
  formData,           \* the form: its templateRepo and templateBranch
  branches,           \* the form: the branch list displayed
  loadingBranches,    \* the form: whether a branch request is shown as pending
  requests,           \* the form: the fetchBranches calls made, and whether each is pending
  repositories,       \* the form: the repositories to choose from
  loadingRepos        \* the form: whether the repositories request is pending

\* the state of the process that concurrent invocations share
concurrent == <<invocations, clock, cwd, dirs, effects>>

\* the state of the functions that are looked at alone
functions == <<drawn, extraction>>

\* the state of the new-project form
page == <<formData, branches, loadingBranches, requests, repositories, loadingRepos>>

\* the state outside the POST handler
elsewhere == <<functions, page>>

\* the state of the clone's remotes
git == <<remotes, pushes, tags>>

vars ==
  <<projectName, orgDomain, request, githubToken, template, pc, workspace, fs,
    head, firebaseProjectId, appIds, configs, attempts, delays, created,
    githubUrl, newRepoUrl, response, stages, history, calls, remotes, pushes,
    tags, invocations, clock, cwd, dirs, effects, drawn, extraction, formData,
    branches, loadingBranches, requests, repositories, loadingRepos>>

\* the number of runs of the merge on one workspace
MaxRuns == 2

\* a name's characters as one string
RECURSIVE Text(_)
Text(chars) == IF chars = <<>> THEN "" ELSE Head(chars) \o Text(Tail(chars))

AcmeApp == <<"a", "c", "m", "e", "-", "a", "p", "p">>

Acme == <<"a", "c", "m", "e">>

NoResponse == [status |-> 0, body |-> [success |-> FALSE]]

NoApps == [ios |-> "unknown", android |-> "unknown", web |-> "unknown"]

NoConfigs == [ios |-> NoFile, android |-> NoFile, web |-> NoFile]

NothingCreated ==
  [project |-> "", apps |-> [ios |-> "", android |-> "", web |-> ""], repository |-> ""]

\* the clone before the tag stage has looked at its tags
NoTags == [found |-> {}, made |-> {}]

\* the request's other fields, as their characters
OrgTemplate == <<"o", "r", "g", "/", "t", "p", "l">>

Main == <<"m", "a", "i", "n">>

Develop == <<"d", "e", "v", "e", "l", "o", "p">>

DevAccount == <<"d", "e", "v", "@", "a", "c", "m", "e", ".", "i", "o">>

Request(templateRepo, templateBranch, firebaseAccount) ==
  [templateRepo |-> templateRepo, templateBranch |-> templateBranch,
   firebaseAccount |-> firebaseAccount]

\* the clone has no remote before git clone
NoRemotes == [remote \in {"origin", "new-origin"} |-> ""]

\* the process before any invocation: no invocation, the server's directory
NoInvocations == <<>>

ServerDir == "/srv/app"

\* the form before it is mounted
NoForm == [templateRepo |-> "", templateBranch |-> ""]

\* the form is not open
NoPage ==
  /\ formData = NoForm
  /\ branches = <<>>
  /\ loadingBranches = FALSE
  /\ requests = {}
  /\ repositories = <<>>
  /\ loadingRepos = FALSE

\* no function is looked at alone and the form is not open
ElsewhereIdle ==
  /\ drawn = <<>>
  /\ extraction = <<>>
  /\ NoPage

\* the process's shared state while one invocation alone is looked at
Alone ==
  /\ invocations = NoInvocations
  /\ clock = 0
  /\ cwd = ServerDir
  /\ dirs = {}
  /\ effects = {}
  /\ ElsewhereIdle

(***************************************************************************)
(* The documents, payloads and identifiers the merge is run on.            *)
(***************************************************************************)
Section(keys) == Obj([i \in 1..Len(keys) |-> Member(keys[i], Str("old"))])

Present(members) == SelectSeq(members, LAMBDA m : m.v # Undefined)

IosSections ==
  {Undefined,
   Section(<<"apiKey", "custom">>),
   Section(<<"apiKey", "messagingSenderId", "appId", "projectId",
             "storageBucket", "iosBundleId", "custom">>)}

AndroidSections ==
  {Undefined,
   Section(<<"apiKey", "custom">>),
   Section(<<"apiKey", "messagingSenderId", "appId", "projectId",
             "storageBucket", "custom">>)}

WebSections ==
  {Undefined,
   Section(<<"apiKey", "custom">>),
   Section(<<"apiKey", "authDomain", "projectId", "storageBucket",
             "messagingSenderId", "appId", "measurementId", "custom">>)}

Firebase(ios, android, web) ==
  Obj(Present(<<Member("ios", ios), Member("android", android),
                Member("web", web), Member("region", Str("old"))>>))

FirebaseSections ==
  {Undefined} \cup
  {Firebase(i, a, w) : i \in IosSections, a \in AndroidSections, w \in WebSections}

AppSections ==
  {Undefined,
   Section(<<"version">>),
   Section(<<"name", "description", "version">>)}

Document(app, firebase) ==
  Obj(Present(<<Member("app", app), Member("firebase", firebase),
                Member("ui", Section(<<"theme">>))>>))

Documents == {Document(app, firebase) : app \in AppSections, firebase \in FirebaseSections}

ConfigFiles ==
  {NoFile, File("garbage", 0, Undefined), File("json", 0, Null)} \cup
  {File("json", 4, doc) : doc \in Documents}

IosPlist ==
  File("plist", 0, Obj(<<Member("API_KEY", Str("ios-key")),
                         Member("GCM_SENDER_ID", Str("1234")),
                         Member("GOOGLE_APP_ID", Str("1:1234:ios:abc"))>>))

IosPayloads ==
  {NoFile, File("plist", 0, Obj(<<Member("API_KEY", Str("ios-key"))>>)), IosPlist}

GoogleServices ==
  File("json", 2,
       Obj(<<Member("project_info",
                    Obj(<<Member("project_number", Str("1234")),
                          Member("api_key", Str("android-key"))>>)),
             Member("client",
                    Arr(<<Member("0",
                                 Obj(<<Member("client_info",
                                              Obj(<<Member("mobilesdk_app_id",
                                                           Str("1:1234:android:abc"))>>))>>))>>))>>))

AndroidPayloads ==
  {NoFile,
   File("garbage", 0, Undefined),
   File("json", 2,
        Obj(<<Member("project_info", Obj(<<Member("project_number", Str("1234"))>>)),
              Member("client",
                     Arr(<<Member("0", Obj(<<Member("client_info", Obj(<<>>))>>))>>))>>)),
   GoogleServices}

WebConfig ==
  File("js", 0, Obj(<<Member("projectId", Str("acme-app-x1y2z3")),
                      Member("appId", Str("1:1234:web:abc")),
                      Member("storageBucket", Str("acme-app-x1y2z3.firebasestorage.app")),
                      Member("apiKey", Str("web-key")),
                      Member("authDomain", Str("acme-app-x1y2z3.firebaseapp.com")),
                      Member("messagingSenderId", Str("1234")),
                      Member("measurementId", Str("G-1234"))>>))

WebPayloads ==
  {NoFile,
   File("js", 0, Obj(<<Member("apiKey", Str("web-key")),
                       Member("measurementId", Str("G-1234"))>>)),
   WebConfig}

\* createFirebaseApps returns only when at least one identifier is known
AppIdSets ==
  {ids \in [ios : {"unknown", "1:1234:ios:abc"},
            android : {"unknown", "1:1234:android:abc"},
            web : {"unknown", "1:1234:web:abc"}] :
     \E platform \in {"ios", "android", "web"} : ids[platform] # "unknown"}

EmptyWorkspace == [content |-> [p \in Paths |-> NoFile], writes |-> <<>>]

Workspace(config, ios, android, web) ==
  [content |-> [p \in Paths |->
                  IF p = existingConfigPath THEN config
                  ELSE IF p = iosConfigPath THEN ios
                  ELSE IF p = androidConfigPath THEN android
                  ELSE IF p = webConfigPath THEN web
                  ELSE NoFile],
   writes |-> <<>>]

(***************************************************************************)
(* The merge on its own: a workspace with an app_config.json and payloads  *)
(* of every kind, on which updateAppConfigJson runs up to MaxRuns times    *)
(* with the same arguments.                                                *)
(***************************************************************************)
MergeInit ==
  /\ projectName = AcmeApp
  /\ orgDomain = Acme
  /\ request = Request(OrgTemplate, Main, DevAccount)
  /\ githubToken = "ghp_token"
  /\ firebaseProjectId = "acme-app-x1y2z3"
  /\ appIds \in AppIdSets
  /\ \E config \in ConfigFiles, ios \in IosPayloads,
        android \in AndroidPayloads, web \in WebPayloads :
       fs = Workspace(config, ios, android, web)
  /\ template = fs.content
  /\ head = fs.content
  /\ pc = "merge"
  /\ workspace = "exists"
  /\ configs = NoConfigs
  /\ attempts = <<>>
  /\ delays = <<>>
  /\ created = NothingCreated
  /\ githubUrl = ""
  /\ newRepoUrl = ""
  /\ response = NoResponse
  /\ stages = <<>>
  /\ history = <<>>
  /\ calls = <<>>
  /\ remotes = NoRemotes
  /\ pushes = {}
  /\ tags = NoTags
  /\ Alone

RunMerge ==
  /\ Len(history) < MaxRuns
  /\ LET run == updateAppConfigJson(fs, firebaseProjectId, Text(projectName),
                                    Text(orgDomain), appIds)
     IN /\ fs' = run.fs
        /\ history' = Append(history,
                             [pre |-> fs, post |-> run.fs, outcome |-> run.outcome])
  /\ UNCHANGED <<projectName, orgDomain, request, githubToken, template, concurrent, elsewhere, pc, workspace,
                 head, firebaseProjectId, appIds, configs, attempts, delays,
                 created, githubUrl, newRepoUrl, response, stages, calls, git>>

MergeNext == RunMerge

MergeSpec == MergeInit /\ [][MergeNext]_vars

(***************************************************************************)
(* The POST handler: one invocation of the pipeline.                       *)
(***************************************************************************)
LowerAlnumHyphen ==
  {"a", "b", "c", "d", "e", "f", "g", "h", "i", "j", "k", "l", "m", "n", "o",
   "p", "q", "r", "s", "t", "u", "v", "w", "x", "y", "z", "0", "1", "2", "3",
   "4", "5", "6", "7", "8", "9", "-"}

\* /^[a-z0-9-]+$/.test(projectName)
ValidProjectName(name) ==
  Len(name) > 0 /\ \A i \in 1..Len(name) : name[i] \in LowerAlnumHyphen

AcmeUpper == <<"A", "c", "m", "e">>

ProjectNames == {AcmeApp, <<>>, AcmeUpper}

OrgDomains == {Acme, <<>>, AcmeUpper}

\* a repository name without its owner
Tpl == <<"t", "p", "l">>

Requests ==
  {Request(templateRepo, templateBranch, firebaseAccount) :
     templateRepo \in {OrgTemplate, <<>>, Tpl},
     templateBranch \in {Main, <<>>, Develop},
     firebaseAccount \in {DevAccount, <<>>}}

\* if (!projectName || !orgDomain || !templateRepo || !templateBranch || !firebaseAccount)
AllFieldsGiven(name, domain, req) ==
  /\ name # <<>>
  /\ domain # <<>>
  /\ req.templateRepo # <<>>
  /\ req.templateBranch # <<>>
  /\ req.firebaseAccount # <<>>

UpperLetters ==
  {"A", "B", "C", "D", "E", "F", "G", "H", "I", "J", "K", "L", "M", "N", "O",
   "P", "Q", "R", "S", "T", "U", "V", "W", "X", "Y", "Z"}

\* createProjectSchema: /^[a-zA-Z0-9-]+\/[a-zA-Z0-9-]+$/
SchemaRepo(chars) ==
  \E i \in 2..(Len(chars) - 1) :
    /\ chars[i] = "/"
    /\ \A j \in (1..Len(chars)) \ {i} : chars[j] \in LowerAlnumHyphen \cup UpperLetters

\* createProjectSchema: z.string().email(), as one @ between a local part
\* and a domain with a dot inside
SchemaEmail(chars) ==
  \E i \in 2..(Len(chars) - 1) :
    /\ chars[i] = "@"
    /\ \A j \in (1..Len(chars)) \ {i} : chars[j] # "@"
    /\ \E k \in (i + 2)..(Len(chars) - 1) : chars[k] = "."

\* createFirebaseConfigFiles: firebase.json, firestore.indexes.json and
\* lib/firebase_config.dart are written anew, and the Firebase dependencies
\* are added to an existing pubspec.yaml that lacks them
createFirebaseConfigFiles(files, name, domain) ==
  LET a == writeFileSync(files, "firebase.json",
                         File("json", 2, Obj(<<Member("firestore", Str("firestore.rules"))>>)))
      b == writeFileSync(a, "firestore.indexes.json",
                         File("json", 2, Obj(<<Member("indexes", Arr(<<>>))>>)))
      c == writeFileSync(b, "lib/firebase_config.dart",
                         File("dart", 0, Obj(<<Member("projectId", Str(name)),
                                               Member("orgDomain", Str(domain))>>)))
      pubspec == readFileSync(c, "pubspec.yaml")
      d == IF existsSync(c, "pubspec.yaml")
              /\ Get(pubspec.value, "firebase_core") = Undefined
           THEN writeFileSync(c, "pubspec.yaml",
                              IF Get(pubspec.value, "dev_dependencies") # Undefined
                              THEN [pubspec EXCEPT !.value =
                                      Put(@, "firebase_core", Str("^2.24.2"))]
                              ELSE pubspec)
           ELSE c
  IN d

\* a configuration file that holds the JSON text null
NullConfig == File("json", 0, Null)

\* what the template repository holds at assets/config/app_config.json
TemplateConfigs ==
  {NoFile,
   NullConfig,
   File("garbage", 0, Undefined),
   File("json", 4,
        Document(Section(<<"name", "description", "version">>),
                 Firebase(Section(<<"apiKey", "projectId", "custom">>),
                          Section(<<"apiKey", "appId", "custom">>),
                          Section(<<"apiKey", "custom">>))))}

\* the template's files that name the project: some of the listed files,
\* and the Android manifest
TemplateTexts ==
  [path \in {"README.md", "android/app/build.gradle", iosProjectFile, androidManifestFile} |->
     IF path = "README.md"
     THEN TextFile(<<"# ", Placeholder, "\nbundle ", PackagePrefix, Placeholder,
                     "\nclone ", Placeholder, "\n">>)
     ELSE IF path = "android/app/build.gradle"
     THEN TextFile(<<"applicationId \"", PackagePrefix, Placeholder, "\"\n">>)
     ELSE IF path = iosProjectFile
     THEN TextFile(<<"PRODUCT_NAME = ", Placeholder, ";\n",
                     "PRODUCT_BUNDLE_IDENTIFIER = ", PackagePrefix, Placeholder, ";\n">>)
     ELSE TextFile(<<"<manifest ", "package=\"", PackagePrefix, Placeholder, "\"", ">\n">>)]

Template(config) ==
  [path \in Paths |->
     IF path = existingConfigPath THEN config
     ELSE IF path \in DOMAIN TemplateTexts THEN TemplateTexts[path]
     ELSE NoFile]

\* a template that holds the files createFirebaseConfigFiles writes for
\* acme-app of acme, as a repository this pipeline has made does
GeneratedTemplate ==
  createFirebaseConfigFiles(EmptyWorkspace, Text(AcmeApp), Text(Acme)).content

Templates == {Template(config) : config \in TemplateConfigs} \cup {GeneratedTemplate}

\* the random suffixes Math.random().toString(36).substring(2, 8) may give
Suffixes == {"x1y2z3", "q7w8e9"}

\* for (let attempt = 1; attempt <= 3; attempt++)
MaxAttempts == 3

\* if (attempt === 3) throw
ThrowAtAttempt == 3

Init ==
  /\ projectName \in ProjectNames
  /\ orgDomain \in OrgDomains
  /\ request \in Requests
  /\ githubToken \in {"", "ghp_token"}
  /\ template \in Templates
  /\ (orgDomain # Acme) = (template = Template(NullConfig))
  /\ (request.templateBranch = Develop) = (orgDomain = AcmeUpper)
  /\ pc = "validate"
  /\ workspace = "none"
  /\ fs = EmptyWorkspace
  /\ head = EmptyWorkspace.content
  /\ firebaseProjectId = ""
  /\ appIds = NoApps
  /\ configs = NoConfigs
  /\ attempts = <<>>
  /\ delays = <<>>
  /\ created = NothingCreated
  /\ githubUrl = ""
  /\ newRepoUrl = ""
  /\ response = NoResponse
  /\ stages = <<>>
  /\ history = <<>>
  /\ calls = <<>>
  /\ remotes = NoRemotes
  /\ pushes = {}
  /\ tags = NoTags
  /\ Alone

\* `base-build-${dateStr}`, in createBaseBuildTag and again in the response
BaseBuildTag == "base-build-<date>"

\* `base-build-${dateStr}-${Date.now()}`
UniqueBuildTag == "base-build-<date>-<now>"

ErrorResponse(status, message) ==
  [status |-> status, body |-> [success |-> FALSE, error |-> message]]

\* the success response of the handler
SuccessResponse ==
  [status |-> 200,
   body |-> [success |-> TRUE,
             projectName |-> Text(projectName),
             firebaseProjectId |-> firebaseProjectId,
             githubUrl |-> githubUrl,
             newRepoUrl |-> newRepoUrl,
             baseBuildTag |-> BaseBuildTag,
             firebaseUrl |-> "https://console.firebase.google.com/project/"
                             \o firebaseProjectId,
             currentStep |-> 11]]

\* fs.rmSync(tempDir, { recursive: true, force: true })
rmSync(files) == [content |-> [p \in Paths |-> NoFile], writes |-> files.writes]

\* a catch that rethrows without the clean-up
CleanupOnErrorSkipped(dir) == dir

\* catch: if (fs.existsSync(tempDir)) fs.rmSync(tempDir, ...)
CleanupOnError(dir) == IF dir = "exists" THEN "removed" ELSE dir

\* the clean-up after the last stage
CleanupOnSuccess(dir) == "removed"

\* a stage threw and the error is answered, but the handler goes on
FatalContinues(message) ==
  /\ workspace' = CleanupOnError(workspace)
  /\ fs' = IF CleanupOnError(workspace) = "removed" THEN rmSync(fs) ELSE fs
  /\ response' = ErrorResponse(500, message)
  /\ pc' = pc

\* a stage threw: the inner catch cleans up and rethrows, the outer catch
\* answers with the error's message
Fatal(message) ==
  /\ workspace' = CleanupOnError(workspace)
  /\ fs' = IF CleanupOnError(workspace) = "removed" THEN rmSync(fs) ELSE fs
  /\ response' = ErrorResponse(500, message)
  /\ pc' = "responded"

\* the parsing and validation of the request body
Validate ==
  /\ pc = "validate"
  /\ IF ~AllFieldsGiven(projectName, orgDomain, request)
     THEN /\ response' = ErrorResponse(400, "All fields are required")
          /\ pc' = "responded"
     ELSE IF ~ValidProjectName(projectName)
     THEN /\ response' = ErrorResponse(400, "Project name must contain only lowercase letters, numbers, and hyphens")
          /\ pc' = "responded"
     ELSE /\ response' = response
          /\ pc' = "mkdir"
  /\ UNCHANGED <<projectName, orgDomain, request, githubToken, template, concurrent, elsewhere, workspace, fs,
                 head, firebaseProjectId, appIds, configs, attempts, delays,
                 created, githubUrl, newRepoUrl, stages, history, calls, git>>

\* checkRequiredTools, whose result is not looked at, and
\* fs.mkdirSync(tempDir, { recursive: true })
CreateTempDir ==
  /\ pc = "mkdir"
  /\ calls' = calls \o <<"git --version", "firebase --version">>
  /\ workspace' = "exists"
  /\ pc' = "clone"
  /\ UNCHANGED <<projectName, orgDomain, request, githubToken, template, concurrent, elsewhere, fs, head,
                 firebaseProjectId, appIds, configs, attempts, delays, created,
                 githubUrl, newRepoUrl, response, stages, history, git>>

TokenConfigured(token) ==
  token # "" /\ token # "your_github_personal_access_token_here"

\* `https://${githubToken}@github.com/${templateRepo}.git`, without the token
TemplateUrl(req) == "https://github.com/" \o Text(req.templateRepo) \o ".git"

\* `https://github.com/${templateRepo}/tree/${templateBranch}`
TreeUrl(req) ==
  "https://github.com/" \o Text(req.templateRepo) \o "/tree/" \o Text(req.templateBranch)

\* github.com serves a repository at owner/name only
Clonable(req) == SchemaRepo(req.templateRepo)

\* cloneTemplateRepository
Clone ==
  /\ pc = "clone"
  /\ stages' = Append(stages, "clone")
  /\ \/ /\ ~TokenConfigured(githubToken)
        /\ Fatal("Failed to clone template repository: GitHub Personal Access Token not configured")
        /\ UNCHANGED <<head, githubUrl, calls, remotes>>
     \/ /\ TokenConfigured(githubToken)
        /\ calls' = Append(calls, "git clone")
        /\ Fatal("Failed to clone template repository: git clone failed")
        /\ UNCHANGED <<head, githubUrl, remotes>>
     \/ /\ TokenConfigured(githubToken)
        /\ Clonable(request)
        /\ calls' = Append(calls, "git clone")
        /\ fs' = [content |-> template, writes |-> <<>>]
        /\ head' = template
        /\ remotes' = [remotes EXCEPT !["origin"] = TemplateUrl(request)]
        /\ githubUrl' = TreeUrl(request)
        /\ pc' = "rename"
        /\ UNCHANGED <<workspace, response>>
  /\ UNCHANGED <<projectName, orgDomain, request, githubToken, template, concurrent, elsewhere,
                 firebaseProjectId, appIds, configs, attempts, delays, created,
                 newRepoUrl, history, pushes, tags>>

(***************************************************************************)
(* renameProjectIdentifiers.                                               *)
(***************************************************************************)
\* /mytemplate-app/g
PlaceholderPattern == <<Placeholder>>

\* /com\.meghzone\.mytemplate-app/g
PackagePattern == <<PackagePrefix, Placeholder>>

\* /PRODUCT_BUNDLE_IDENTIFIER = com\.meghzone\.mytemplate-app/g
BundlePattern == <<"PRODUCT_BUNDLE_IDENTIFIER = ", PackagePrefix, Placeholder>>

\* /package="com\.meghzone\.mytemplate-app"/g
ManifestPattern == <<"package=\"", PackagePrefix, Placeholder, "\"">>

\* String.replace with a /g pattern: every occurrence, from left to right
RECURSIVE ReplaceAll(_, _, _)
ReplaceAll(pieces, pattern, replacement) ==
  IF Len(pieces) < Len(pattern) THEN pieces
  ELSE IF SubSeq(pieces, 1, Len(pattern)) = pattern
  THEN replacement \o ReplaceAll(SubSeq(pieces, Len(pattern) + 1, Len(pieces)),
                                  pattern, replacement)
  ELSE <<Head(pieces)>> \o ReplaceAll(Tail(pieces), pattern, replacement)

\* shell.sed('-i', pattern, replacement, file), which rewrites the file
sed(files, pattern, replacement, file) ==
  IF readFileSync(files, file).fmt # "text" THEN writeFileSync(files, file, readFileSync(files, file))
  ELSE writeFileSync(files, file,
                     TextFile(ReplaceAll(Pieces(readFileSync(files, file)),
                                         pattern, replacement)))

filesToUpdate ==
  <<"pubspec.yaml", "android/app/build.gradle", iosProjectFile,
    "ios/Runner/Info.plist", "web/index.html", "README.md", "firebase.json",
    "firestore.rules", "storage.rules">>

\* the body of filesToUpdate.forEach: the placeholder first, then the
\* package identifier
UpdateFile(files, file, name, domain) ==
  IF existsSync(files, file)
  THEN sed(sed(files, PlaceholderPattern, <<name>>, file),
           PackagePattern, <<BundleId(domain, name)>>, file)
  ELSE files

RECURSIVE UpdateFiles(_, _, _, _)
UpdateFiles(files, list, name, domain) ==
  IF list = <<>> THEN files
  ELSE UpdateFiles(UpdateFile(files, Head(list), name, domain), Tail(list), name, domain)

\* if (shell.test('-f', file)) shell.sed('-i', pattern, prefix + bundle id, file)
UpdateIdentifier(files, file, pattern, prefix, suffix, name, domain) ==
  IF existsSync(files, file)
  THEN sed(files, pattern, <<prefix \o BundleId(domain, name) \o suffix>>, file)
  ELSE files

renameProjectIdentifiers(files, name, domain) ==
  createFirebaseConfigFiles(
    UpdateIdentifier(
      UpdateIdentifier(UpdateFiles(files, filesToUpdate, name, domain),
                       iosProjectFile, BundlePattern,
                       "PRODUCT_BUNDLE_IDENTIFIER = ", "", name, domain),
      androidManifestFile, ManifestPattern, "package=\"", "\"", name, domain),
    name, domain)

\* the handler's call of renameProjectIdentifiers
Rename ==
  /\ pc = "rename"
  /\ stages' = Append(stages, "rename")
  /\ fs' = renameProjectIdentifiers(fs, Text(projectName), Text(orgDomain))
  /\ pc' = "config-files"
  /\ UNCHANGED <<projectName, orgDomain, request, githubToken, template, concurrent, elsewhere, workspace, head,
                 firebaseProjectId, appIds, configs, attempts, delays, created,
                 githubUrl, newRepoUrl, response, history, calls, git>>

\* the handler's own call of createFirebaseConfigFiles
CreateConfigFiles ==
  /\ pc = "config-files"
  /\ fs' = createFirebaseConfigFiles(fs, Text(projectName), Text(orgDomain))
  /\ pc' = "project"
  /\ UNCHANGED <<projectName, orgDomain, request, githubToken, template, concurrent, elsewhere, workspace, head,
                 firebaseProjectId, appIds, configs, attempts, delays, created,
                 githubUrl, newRepoUrl, response, stages, history, calls, git>>

\* `${projectName}-${suffix}`
ProjectId(name, suffix) == name \o "-" \o suffix

\* return projectId, the id drawn before the loop
ReturnedFirstProjectId(projectId, currentProjectId) == projectId

\* return currentProjectId
ReturnedProjectId(projectId, currentProjectId) == currentProjectId

\* createFirebaseProject: one pass of the loop body, the call of
\* firebase projects:create with a freshly drawn id
ProjectAttempt ==
  /\ pc = "project"
  /\ calls' = Append(calls, "firebase projects:create")
  /\ UNCHANGED git
  /\ stages' = IF attempts = <<>> THEN Append(stages, "project") ELSE stages
  /\ \E suffix \in Suffixes :
       LET attempt          == Len(attempts) + 1
           currentProjectId == ProjectId(Text(projectName), suffix)
           projectId        == IF attempt = 1 THEN currentProjectId ELSE attempts[1].id
       IN \/ /\ attempts' = Append(attempts, [id |-> currentProjectId, ok |-> TRUE])
             /\ created' = [created EXCEPT !.project = currentProjectId]
             /\ firebaseProjectId' = ReturnedProjectId(projectId, currentProjectId)
             /\ pc' = "apps"
             /\ UNCHANGED <<workspace, fs, response>>
          \/ /\ attempts' = Append(attempts, [id |-> currentProjectId, ok |-> FALSE])
             /\ attempt = ThrowAtAttempt
             /\ Fatal("Failed to create Firebase project after 3 attempts")
             /\ UNCHANGED <<created, firebaseProjectId>>
          \/ /\ attempts' = Append(attempts, [id |-> currentProjectId, ok |-> FALSE])
             /\ attempt # ThrowAtAttempt
             /\ pc' = "project-wait"
             /\ UNCHANGED <<created, firebaseProjectId, workspace, fs, response>>
  /\ UNCHANGED <<projectName, orgDomain, request, githubToken, template, concurrent, elsewhere, head, appIds,
                 configs, delays, githubUrl, newRepoUrl, history>>

\* await new Promise(resolve => setTimeout(resolve, 2000)), then attempt++
ProjectWait ==
  /\ pc = "project-wait"
  /\ UNCHANGED <<calls, git>>
  /\ delays' = Append(delays, Len(attempts))
  /\ IF Len(attempts) + 1 <= MaxAttempts
     THEN /\ pc' = "project"
          /\ UNCHANGED <<workspace, fs, response>>
     ELSE Fatal("Unexpected error in Firebase project creation")
  /\ UNCHANGED <<projectName, orgDomain, request, githubToken, template, concurrent, elsewhere, head,
                 firebaseProjectId, appIds, configs, attempts, created,
                 githubUrl, newRepoUrl, stages, history>>

\* the identifier firebase apps:create assigns to a platform's app
AppId(platform) == "1:1234:" \o platform \o ":abc"

\* what extractAppId finds in the output of a firebase apps:create that
\* has created the app
AppOutputs(platform) == {AppId(platform)}

\* one try block of createFirebaseApps: the command fails and the identifier
\* stays as it is, or it creates the app and the identifier is what
\* extractAppId finds in the output
CreateApp(platform) ==
  /\ calls' = Append(calls, "firebase apps:create " \o platform)
  /\ \/ UNCHANGED <<appIds, created>>
     \/ \E extracted \in AppOutputs(platform) :
          /\ appIds' = [appIds EXCEPT ![platform] = extracted]
          /\ created' = [created EXCEPT !.apps[platform] = AppId(platform)]

\* the count of the identifiers, known or not
attemptedApps(results) == Cardinality(DOMAIN results)

\* Object.values(results).filter(id => id !== 'unknown').length
successfulApps(results) ==
  Cardinality({platform \in DOMAIN results : results[platform] # "unknown"})

\* createFirebaseApps: firebase apps:create ios
CreateIosApp ==
  /\ pc = "apps"
  /\ stages' = Append(stages, "apps")
  /\ CreateApp("ios")
  /\ pc' = "apps-android"
  /\ UNCHANGED <<projectName, orgDomain, request, githubToken, template, concurrent, elsewhere, workspace, fs,
                 head, firebaseProjectId, configs, attempts, delays, githubUrl,
                 newRepoUrl, response, history, git>>

\* createFirebaseApps: firebase apps:create android
CreateAndroidApp ==
  /\ pc = "apps-android"
  /\ CreateApp("android")
  /\ pc' = "apps-web"
  /\ UNCHANGED <<projectName, orgDomain, request, githubToken, template, concurrent, elsewhere, workspace, fs,
                 head, firebaseProjectId, configs, attempts, delays, githubUrl,
                 newRepoUrl, response, stages, history, git>>

\* createFirebaseApps: firebase apps:create web, and the count of the successes
CreateWebApp ==
  /\ pc = "apps-web"
  /\ CreateApp("web")
  /\ IF successfulApps(appIds') = 0
     THEN Fatal("Failed to create any Firebase apps")
     ELSE /\ pc' = "firestore"
          /\ UNCHANGED <<workspace, fs, response>>
  /\ UNCHANGED <<projectName, orgDomain, request, githubToken, template, concurrent, elsewhere, head,
                 firebaseProjectId, configs, attempts, delays, githubUrl,
                 newRepoUrl, stages, history, git>>

\* setupFirestoreDatabase: a failure is caught and logged
SetupFirestore ==
  /\ pc = "firestore"
  /\ stages' = Append(stages, "firestore")
  /\ \/ /\ calls' = Append(calls, "firebase firestore:databases:create")
        /\ fs' = fs
     \/ /\ calls' = calls \o <<"firebase firestore:databases:create",
                                "firebase deploy --only firestore:rules">>
        /\ fs' = writeFileSync(fs, "firestore.rules", File("rules", 0, Undefined))
  /\ pc' = "download"
  /\ UNCHANGED <<projectName, orgDomain, request, githubToken, template, concurrent, elsewhere, workspace, head,
                 firebaseProjectId, appIds, configs, attempts, delays, created,
                 githubUrl, newRepoUrl, response, history, git>>

EmptyOutput == File("empty", 0, Undefined)

\* a download that gave an output, empty or not
DownloadedOrEmpty(output) == output # NoFile

\* an output that is not JSON
GarbageOutput == File("garbage", 0, Undefined)

\* if (configs.x): a download that gave a non-empty output
Downloaded(output) == output # NoFile /\ output # EmptyOutput

\* what firebase apps:sdkconfig prints for a platform: nothing or the
\* platform's payload, and for Android a text that is not JSON or the payload
SdkConfigs(platform) ==
  IF platform = "ios" THEN {EmptyOutput, IosPlist}
  ELSE IF platform = "android" THEN {GarbageOutput, GoogleServices}
  ELSE {EmptyOutput, WebConfig}

\* one download of downloadFirebaseConfigs: attempted when the identifier is
\* known, and then it gives an output or fails
Download(platform) ==
  IF Known(appIds[platform])
  THEN /\ calls' = Append(calls, "firebase apps:sdkconfig " \o platform)
       /\ \/ \E output \in SdkConfigs(platform) :
               configs' = [configs EXCEPT ![platform] = output]
          \/ configs' = configs
  ELSE UNCHANGED <<calls, configs>>

\* the saving of the downloaded payloads at their paths
SaveConfigs(files, downloaded) ==
  LET a == IF Downloaded(downloaded.ios)
           THEN writeFileSync(files, iosConfigPath, downloaded.ios) ELSE files
      b == IF Downloaded(downloaded.android)
           THEN writeFileSync(a, androidConfigPath, downloaded.android) ELSE a
      c == IF Downloaded(downloaded.web)
           THEN writeFileSync(b, webConfigPath, downloaded.web) ELSE b
  IN c

DownloadIos ==
  /\ pc = "download"
  /\ UNCHANGED git
  /\ stages' = Append(stages, "download")
  /\ Download("ios")
  /\ pc' = "download-android"
  /\ UNCHANGED <<projectName, orgDomain, request, githubToken, template, concurrent, elsewhere, workspace, fs,
                 head, firebaseProjectId, appIds, attempts, delays, created,
                 githubUrl, newRepoUrl, response, history>>

DownloadAndroid ==
  /\ pc = "download-android"
  /\ UNCHANGED git
  /\ Download("android")
  /\ pc' = "download-web"
  /\ UNCHANGED <<projectName, orgDomain, request, githubToken, template, concurrent, elsewhere, workspace, fs,
                 head, firebaseProjectId, appIds, attempts, delays, created,
                 githubUrl, newRepoUrl, response, stages, history>>

DownloadWeb ==
  /\ pc = "download-web"
  /\ UNCHANGED git
  /\ Download("web")
  /\ fs' = SaveConfigs(fs, configs')
  /\ pc' = "merge"
  /\ UNCHANGED <<projectName, orgDomain, request, githubToken, template, concurrent, elsewhere, workspace,
                 head, firebaseProjectId, appIds, attempts, delays, created,
                 githubUrl, newRepoUrl, response, stages, history>>

\* the handler's call of updateAppConfigJson
Merge ==
  /\ pc = "merge"
  /\ UNCHANGED <<calls, git>>
  /\ stages' = Append(stages, "merge")
  /\ LET run == updateAppConfigJson(fs, firebaseProjectId, Text(projectName),
                                    Text(orgDomain), appIds)
     IN /\ fs' = run.fs
        /\ history' = Append(history,
                             [pre |-> fs, post |-> run.fs, outcome |-> run.outcome])
  /\ pc' = "commit"
  /\ UNCHANGED <<projectName, orgDomain, request, githubToken, template, concurrent, elsewhere, workspace, head,
                 firebaseProjectId, appIds, configs, attempts, delays, created,
                 githubUrl, newRepoUrl, response>>

\* the git commands of a stage that commits whatever git status shows
CommitCommandsAlways(changed) ==
  <<"git status", "git add .", "git status", "git commit", "git log">>

\* the git commands of commitAndPushChanges: the commit is made only when
\* git status shows changes after git add
CommitCommands(changed) ==
  <<"git status", "git add .", "git status">>
    \o (IF changed THEN <<"git commit", "git log">> ELSE <<>>)

\* commitAndPushChanges: a git command that fails makes the stage throw,
\* with the command in the error's message
Commit ==
  /\ pc = "commit"
  /\ stages' = Append(stages, "commit")
  /\ LET commands == CommitCommands(fs.content # head)
     IN \/ \E failed \in 1..Len(commands) :
             /\ calls' = calls \o SubSeq(commands, 1, failed)
             /\ Fatal("Failed to commit and push changes: " \o commands[failed])
             /\ head' = IF failed > 4 THEN fs.content ELSE head
        \/ /\ calls' = calls \o commands
           /\ head' = fs.content
           /\ pc' = "repo"
           /\ UNCHANGED <<workspace, fs, response>>
  /\ UNCHANGED <<projectName, orgDomain, request, githubToken, template, concurrent, elsewhere,
                 firebaseProjectId, appIds, configs, attempts, delays, created,
                 githubUrl, newRepoUrl, history, git>>

\* repo.clone_url and `https://github.com/${newRepoName}` of the repository
\* the token's owner gets
CloneUrl(name) == "https://github.com/owner/" \o name \o ".git"

RepoUrl(name) == "https://github.com/owner/" \o name

\* the branch git push new-origin names
PushedBranch == "main"

\* git clone --branch templateBranch leaves one local branch, the template's
LocalBranch(req) == Text(req.templateBranch)

\* createPrivateRepository: without a token nothing is done; every failure
\* is caught and gives the empty URL, also after the repository is created
CreateRepository ==
  /\ pc = "repo"
  /\ stages' = Append(stages, "repo")
  /\ IF ~TokenConfigured(githubToken)
     THEN /\ newRepoUrl' = ""
          /\ UNCHANGED <<calls, remotes, pushes, created>>
     ELSE \/ /\ calls' = Append(calls, "POST https://api.github.com/user/repos")
             /\ newRepoUrl' = ""
             /\ UNCHANGED <<remotes, pushes, created>>
          \/ /\ calls' = calls \o <<"POST https://api.github.com/user/repos",
                                     "git remote add new-origin",
                                     "git push new-origin " \o PushedBranch>>
             /\ created' = [created EXCEPT !.repository = RepoUrl(Text(projectName))]
             /\ remotes' = [remotes EXCEPT !["new-origin"] = CloneUrl(Text(projectName))]
             /\ \/ /\ newRepoUrl' = ""
                   /\ pushes' = pushes
                \/ /\ LocalBranch(request) = PushedBranch
                   /\ newRepoUrl' = RepoUrl(Text(projectName))
                   /\ pushes' = pushes \cup {[to |-> remotes'["new-origin"], ref |-> PushedBranch]}
  /\ pc' = "tag"
  /\ UNCHANGED <<projectName, orgDomain, request, githubToken, template, concurrent, elsewhere, workspace, fs,
                 head, firebaseProjectId, appIds, configs, attempts, delays,
                 githubUrl, response, history, tags>>

\* the name the stage gives its tag: the dated name, or the unique one when
\* git rev-parse finds the dated name in the clone
TagName(found) == IF BaseBuildTag \in found THEN UniqueBuildTag ELSE BaseBuildTag

\* a failure of the stage ends the handler
TagFailureRethrown ==
  Fatal("Failed to create base build tag")

\* catch { console.error('Failed to create base build tag') }: the handler
\* goes on without the tag
TagFailureCaught ==
  /\ pc' = "cleanup"
  /\ UNCHANGED <<workspace, fs, response>>

\* createBaseBuildTag: git rev-parse looks for the dated name among the tags
\* the clone has from the template repository, git tag -a makes the tag, and
\* git push origin sends it
CreateTag ==
  /\ pc = "tag"
  /\ stages' = Append(stages, "tag")
  /\ \E found \in {{}, {BaseBuildTag}} :
       \/ /\ calls' = calls \o <<"git rev-parse", "git tag -a">>
          /\ tags' = [found |-> found, made |-> {}]
          /\ pushes' = pushes
          /\ TagFailureCaught
       \/ /\ calls' = calls \o <<"git rev-parse", "git tag -a", "git push origin <tag>">>
          /\ tags' = [found |-> found, made |-> {TagName(found)}]
          /\ pushes' = pushes
          /\ TagFailureCaught
       \/ /\ calls' = calls \o <<"git rev-parse", "git tag -a", "git push origin <tag>">>
          /\ tags' = [found |-> found, made |-> {TagName(found)}]
          /\ pushes' = pushes \cup {[to |-> remotes["origin"], ref |-> TagName(found)]}
          /\ pc' = "cleanup"
          /\ UNCHANGED <<workspace, fs, response>>
  /\ UNCHANGED <<projectName, orgDomain, request, githubToken, template, concurrent, elsewhere,
                 head, firebaseProjectId, appIds, configs, attempts, delays,
                 created, githubUrl, newRepoUrl, history, remotes>>

\* the clean-up of the workspace and the success response
Respond ==
  /\ pc = "cleanup"
  /\ UNCHANGED <<calls, git>>
  /\ workspace' = CleanupOnSuccess(workspace)
  /\ fs' = rmSync(fs)
  /\ response' = SuccessResponse
  /\ pc' = "responded"
  /\ UNCHANGED <<projectName, orgDomain, request, githubToken, template, concurrent, elsewhere, head,
                 firebaseProjectId, appIds, configs, attempts, delays, created,
                 githubUrl, newRepoUrl, stages, history>>

Next ==
  \/ Validate
  \/ CreateTempDir
  \/ Clone
  \/ Rename
  \/ CreateConfigFiles
  \/ ProjectAttempt
  \/ ProjectWait
  \/ CreateIosApp
  \/ CreateAndroidApp
  \/ CreateWebApp
  \/ SetupFirestore
  \/ DownloadIos
  \/ DownloadAndroid
  \/ DownloadWeb
  \/ Merge
  \/ Commit
  \/ CreateRepository
  \/ CreateTag
  \/ Respond

Spec == Init /\ [][Next]_vars

(***************************************************************************)
(* Two invocations of POST in one process.  An invocation runs without     *)
(* interruption from the return of one awaited command to the start of the *)
(* next, and invocations[i].pc names the command invocation i waits for.   *)
(* A command runs in the directory that is the process's cwd when it is    *)
(* started, and a relative path is resolved against the cwd of the moment. *)
(***************************************************************************)
Invocations == {1, 2}

\* the last value of Date.now() looked at
MaxClock == 2

Names == {"acme-app", "beta-app"}

Digits == <<"0", "1", "2", "3", "4", "5", "6", "7", "8", "9">>

\* the decimal text of a number, as a template literal gives it
RECURSIVE Decimal(_)
Decimal(n) ==
  IF n < 10 THEN Digits[n + 1] ELSE Decimal(n \div 10) \o Digits[(n % 10) + 1]

\* path.join(os.tmpdir(), 'project-wizard', `${projectName}-${Date.now()}`)
TempDir(name, now) == "/tmp/project-wizard/" \o name \o "-" \o Decimal(now)

\* the state of one invocation looked at alone
pipeline ==
  <<projectName, orgDomain, request, githubToken, template, pc, workspace, fs,
    head, firebaseProjectId, appIds, configs, attempts, delays, created,
    githubUrl, newRepoUrl, response, stages, history, calls, remotes, pushes, tags>>

ConcurrentInit ==
  /\ projectName = AcmeApp
  /\ orgDomain = Acme
  /\ request = Request(OrgTemplate, Main, DevAccount)
  /\ githubToken = "ghp_token"
  /\ template = Template(NoFile)
  /\ pc = "validate"
  /\ workspace = "none"
  /\ fs = EmptyWorkspace
  /\ head = EmptyWorkspace.content
  /\ firebaseProjectId = ""
  /\ appIds = NoApps
  /\ configs = NoConfigs
  /\ attempts = <<>>
  /\ delays = <<>>
  /\ created = NothingCreated
  /\ githubUrl = ""
  /\ newRepoUrl = ""
  /\ response = NoResponse
  /\ stages = <<>>
  /\ history = <<>>
  /\ calls = <<>>
  /\ remotes = NoRemotes
  /\ pushes = {}
  /\ tags = NoTags
  /\ invocations \in [Invocations -> {[pc |-> "start", name |-> name, tempDir |-> ""] :
                                         name \in Names}]
  /\ clock = 1
  /\ cwd = ServerDir
  /\ dirs = {}
  /\ effects = {}
  /\ ElsewhereIdle

\* shell.cd(dir), which reports a directory that does not exist and leaves
\* the cwd as it is
cd(dir, existing, current) == IF dir \in existing THEN dir ELSE current

\* an operation on the files or the repository of a directory
Effect(i, dir) == [by |-> i, in |-> dir]

Await(i, command) == invocations' = [invocations EXCEPT ![i].pc = command]

\* the catch of POST removes the workspace when it exists and the error is
\* answered; the success path removes it after the last stage
Leave(i) ==
  /\ invocations' = [invocations EXCEPT ![i].pc = "done"]
  /\ dirs' = dirs \ {invocations[i].tempDir}

\* time passes
Tick ==
  /\ clock < MaxClock
  /\ clock' = clock + 1
  /\ UNCHANGED <<pipeline, elsewhere, invocations, cwd, dirs, effects>>

\* the request is accepted: the workspace is named and made, git clone starts
Begin(i) ==
  /\ invocations[i].pc = "start"
  /\ LET tempDir == TempDir(invocations[i].name, clock)
     IN /\ invocations' = [invocations EXCEPT ![i].pc = "git clone",
                                              ![i].tempDir = tempDir]
        /\ dirs' = dirs \cup {tempDir}
        /\ effects' = effects \cup {Effect(i, tempDir)}
  /\ UNCHANGED <<pipeline, elsewhere, clock, cwd>>

\* git clone refuses a directory that holds another clone
CloneTargetFree(i) ==
  \A j \in Invocations \ {i} :
    invocations[j].tempDir = invocations[i].tempDir
      => invocations[j].pc \in {"start", "git clone", "done"}

\* git clone returns: renameProjectIdentifiers and createFirebaseConfigFiles
\* run in the cwd, then firebase projects:create starts
AfterClone(i) ==
  /\ invocations[i].pc = "git clone"
  /\ \/ /\ Leave(i)
        /\ UNCHANGED <<cwd, effects>>
     \/ /\ CloneTargetFree(i)
        /\ invocations[i].tempDir \in dirs
        /\ cwd' = cd(invocations[i].tempDir, dirs, cwd)
        /\ effects' = effects \cup {Effect(i, cwd')}
        /\ Await(i, "firebase projects:create")
        /\ dirs' = dirs
  /\ UNCHANGED <<pipeline, elsewhere, clock>>

\* createFirebaseProject returns or throws
AfterProject(i) ==
  /\ invocations[i].pc = "firebase projects:create"
  /\ \/ Leave(i)
     \/ Await(i, "firebase apps:create") /\ dirs' = dirs
  /\ UNCHANGED <<pipeline, elsewhere, clock, cwd, effects>>

\* createFirebaseApps returns or throws
AfterApps(i) ==
  /\ invocations[i].pc = "firebase apps:create"
  /\ \/ Leave(i)
     \/ Await(i, "firebase firestore:databases:create") /\ dirs' = dirs
  /\ UNCHANGED <<pipeline, elsewhere, clock, cwd, effects>>

\* the database is created and firestore.rules is written in the cwd, where
\* firebase deploy starts; or setupFirestoreDatabase gives up and
\* downloadFirebaseConfigs starts
AfterDatabase(i) ==
  /\ invocations[i].pc = "firebase firestore:databases:create"
  /\ \/ /\ effects' = effects \cup {Effect(i, cwd)}
        /\ cwd' = cwd
        /\ Await(i, "firebase deploy")
     \/ /\ cwd' = cd(invocations[i].tempDir, dirs, cwd)
        /\ effects' = effects
        /\ Await(i, "firebase apps:sdkconfig")
  /\ UNCHANGED <<pipeline, elsewhere, clock, dirs>>

\* downloadFirebaseConfigs starts
AfterDeploy(i) ==
  /\ invocations[i].pc = "firebase deploy"
  /\ cwd' = cd(invocations[i].tempDir, dirs, cwd)
  /\ Await(i, "firebase apps:sdkconfig")
  /\ UNCHANGED <<pipeline, elsewhere, clock, dirs, effects>>

\* the downloads have returned: the payloads that came are saved in the
\* cwd, updateAppConfigJson runs and commitAndPushChanges starts git status
AfterDownload(i) ==
  /\ invocations[i].pc = "firebase apps:sdkconfig"
  /\ cwd' = cd(invocations[i].tempDir, dirs, cwd)
  /\ \E saved \in SUBSET {Effect(i, cwd)} :
       effects' = effects \cup saved \cup {Effect(i, cwd')}
  /\ Await(i, "git status")
  /\ UNCHANGED <<pipeline, elsewhere, clock, dirs>>

\* the git commands commitAndPushChanges awaits one after the other
CommitChain == <<"git status", "git add .", "git status again", "git commit", "git log">>

\* a git command of commitAndPushChanges returns: the next one starts in
\* the cwd, or the stage throws
CommitStep(i) ==
  /\ \E n \in 1..(Len(CommitChain) - 1) :
       /\ invocations[i].pc = CommitChain[n]
       /\ \/ /\ Leave(i)
             /\ effects' = effects
          \/ /\ effects' = effects \cup {Effect(i, cwd)}
             /\ Await(i, CommitChain[n + 1])
             /\ dirs' = dirs
  /\ UNCHANGED <<pipeline, elsewhere, clock, cwd>>

\* commitAndPushChanges returns or throws, and createPrivateRepository
\* sends its request
AfterCommit(i) ==
  /\ invocations[i].pc = "git log"
  /\ \/ Leave(i)
     \/ Await(i, "POST /user/repos") /\ dirs' = dirs
  /\ UNCHANGED <<pipeline, elsewhere, clock, cwd, effects>>

\* createBaseBuildTag starts: shell.cd, then git rev-parse
StartTag(i) ==
  /\ cwd' = cd(invocations[i].tempDir, dirs, cwd)
  /\ effects' = effects \cup {Effect(i, cwd')}
  /\ Await(i, "git rev-parse")

\* the repository is created and git remote add starts in the workspace,
\* or createPrivateRepository gives up
AfterRepoRequest(i) ==
  /\ invocations[i].pc = "POST /user/repos"
  /\ \/ /\ cwd' = cd(invocations[i].tempDir, dirs, cwd)
        /\ effects' = effects \cup {Effect(i, cwd')}
        /\ Await(i, "git remote add")
     \/ StartTag(i)
  /\ UNCHANGED <<pipeline, elsewhere, clock, dirs>>

\* git push new-origin main starts in the cwd, or createPrivateRepository
\* gives up
AfterRemoteAdd(i) ==
  /\ invocations[i].pc = "git remote add"
  /\ \/ /\ effects' = effects \cup {Effect(i, cwd)}
        /\ cwd' = cwd
        /\ Await(i, "git push new-origin")
     \/ StartTag(i)
  /\ UNCHANGED <<pipeline, elsewhere, clock, dirs>>

AfterPush(i) ==
  /\ invocations[i].pc = "git push new-origin"
  /\ StartTag(i)
  /\ UNCHANGED <<pipeline, elsewhere, clock, dirs>>

\* git tag -a starts in the cwd
AfterRevParse(i) ==
  /\ invocations[i].pc = "git rev-parse"
  /\ effects' = effects \cup {Effect(i, cwd)}
  /\ Await(i, "git tag")
  /\ UNCHANGED <<pipeline, elsewhere, clock, cwd, dirs>>

\* git push origin starts in the cwd, or createBaseBuildTag gives up and the
\* workspace is removed
AfterTag(i) ==
  /\ invocations[i].pc = "git tag"
  /\ \/ /\ effects' = effects \cup {Effect(i, cwd)}
        /\ Await(i, "git push origin")
        /\ dirs' = dirs
     \/ /\ Leave(i)
        /\ effects' = effects
  /\ UNCHANGED <<pipeline, elsewhere, clock, cwd>>

\* the workspace is removed and the success is answered
AfterTagPush(i) ==
  /\ invocations[i].pc = "git push origin"
  /\ Leave(i)
  /\ UNCHANGED <<pipeline, elsewhere, clock, cwd, effects>>

ConcurrentNext ==
  \/ Tick
  \/ \E i \in Invocations : Begin(i)
  \/ \E i \in Invocations : AfterClone(i)
  \/ \E i \in Invocations : AfterProject(i)
  \/ \E i \in Invocations : AfterApps(i)
  \/ \E i \in Invocations : AfterDatabase(i)
  \/ \E i \in Invocations : AfterDeploy(i)
  \/ \E i \in Invocations : AfterDownload(i)
  \/ \E i \in Invocations : CommitStep(i)
  \/ \E i \in Invocations : AfterCommit(i)
  \/ \E i \in Invocations : AfterRepoRequest(i)
  \/ \E i \in Invocations : AfterRemoteAdd(i)
  \/ \E i \in Invocations : AfterPush(i)
  \/ \E i \in Invocations : AfterRevParse(i)
  \/ \E i \in Invocations : AfterTag(i)
  \/ \E i \in Invocations : AfterTagPush(i)

ConcurrentSpec == ConcurrentInit /\ [][ConcurrentNext]_vars

(***************************************************************************)
(* No POST invocation: the handler's state while a function or the form is *)
(* looked at alone.                                                        *)
(***************************************************************************)
NoPost ==
  /\ orgDomain = Acme
  /\ request = Request(OrgTemplate, Main, DevAccount)
  /\ githubToken = "ghp_token"
  /\ template = Template(NoFile)
  /\ pc = "validate"
  /\ workspace = "none"
  /\ fs = EmptyWorkspace
  /\ head = EmptyWorkspace.content
  /\ firebaseProjectId = ""
  /\ appIds = NoApps
  /\ configs = NoConfigs
  /\ attempts = <<>>
  /\ delays = <<>>
  /\ created = NothingCreated
  /\ githubUrl = ""
  /\ newRepoUrl = ""
  /\ response = NoResponse
  /\ stages = <<>>
  /\ history = <<>>
  /\ calls = <<>>
  /\ remotes = NoRemotes
  /\ pushes = {}
  /\ tags = NoTags
  /\ invocations = NoInvocations
  /\ clock = 0
  /\ cwd = ServerDir
  /\ dirs = {}
  /\ effects = {}

(***************************************************************************)
(* createFirebaseProject: the project id and the display name it passes to *)
(* firebase projects:create.                                               *)
(***************************************************************************)
\* Number.prototype.toString(36) of a value of Math.random(), which is given
\* by the base-36 digits of its fraction: "0" for 0, "0." and the digits
\* for any other value
toString36(digits) == IF digits = <<>> THEN <<"0">> ELSE <<"0", ".">> \o digits

\* String.prototype.substring(start, end), for start <= end
substring(chars, start, end) ==
  SubSeq(chars, Min({start, Len(chars)}) + 1, Min({end, Len(chars)}))

\* Math.random().toString(36).substring(2, 8)
RandomSuffix(digits) == substring(toString36(digits), 2, 8)

\* `${projectName}-${Math.random().toString(36).substring(2, 8)}`
currentProjectId(name, digits) == name \o <<"-">> \o RandomSuffix(digits)

\* projectName.length >= 4 ? projectName : `${projectName}-project`
displayName(name) ==
  IF Len(name) >= 4 THEN name ELSE name \o <<"-", "p", "r", "o", "j", "e", "c", "t">>

\* the values of Math.random(): two with eleven digits, 0.5 and 0
Randoms ==
  {<<"x", "1", "y", "2", "z", "3", "a", "4", "b", "5", "c">>,
   <<"q", "7", "w", "8", "e", "9", "r", "0", "t", "1", "y">>,
   <<"i">>,
   <<>>}

\* project names of one, three, four and eight characters
IdNames == {<<"a">>, <<"a", "p", "p">>, Acme, AcmeApp}

IdInit ==
  /\ projectName \in IdNames
  /\ NoPost
  /\ ElsewhereIdle

\* one pass of the loop of createFirebaseProject: the id of this attempt and
\* the display name
DrawProjectId ==
  /\ Len(drawn) < MaxAttempts
  /\ \E digits \in Randoms :
       drawn' = Append(drawn, [id |-> currentProjectId(projectName, digits),
                               displayName |-> displayName(projectName)])
  /\ UNCHANGED <<pipeline, concurrent, extraction, page>>

IdNext == DrawProjectId

IdSpec == IdInit /\ [][IdNext]_vars

(***************************************************************************)
(* extractAppId.  A regular expression is the sequence of its elements,    *)
(* each a character class with the least number of characters it takes and *)
(* whether it takes one character or as many as there are; the capturing   *)
(* group runs from one element to the end.  In the patterns of the list a  *)
(* repeated class is always followed by a character outside it, so the     *)
(* longest run is the only one a match can take.                           *)
(***************************************************************************)
DigitChars == {"0", "1", "2", "3", "4", "5", "6", "7", "8", "9"}

LowerLetters == LowerAlnumHyphen \ (DigitChars \cup {"-"})

\* [a-zA-Z0-9]
Alnum == LowerLetters \cup UpperLetters \cup DigitChars

\* [a-zA-Z0-9-]
AlnumHyphen == Alnum \cup {"-"}

\* one character of a class
One(class) == [class |-> class, least |-> 1, many |-> FALSE]

\* class+ and class{n,}
Many(class, least) == [class |-> class, least |-> least, many |-> TRUE]

\* a literal text
Literal(chars) == [i \in 1..Len(chars) |-> One({chars[i]})]

\* a literal text under the i flag
LiteralIgnoreCase(lower, upper) == [i \in 1..Len(lower) |-> One({lower[i], upper[i]})]

\* ([0-9]+:[0-9]+:[a-z]+:[a-zA-Z0-9]+)
FullAppId ==
  <<Many(DigitChars, 1), One({":"}), Many(DigitChars, 1), One({":"}),
    Many(LowerLetters, 1), One({":"}), Many(Alnum, 1)>>

Pattern(prefix, group) == [elements |-> prefix \o group, group |-> Len(prefix) + 1]

patterns ==
  <<Pattern(Literal(<<"A", "p", "p", " ", "I", "D", ":", " ">>), FullAppId),
    Pattern(Literal(<<"A", "p", "p", " ", "I", "D", ":", " ">>), <<Many(AlnumHyphen, 1)>>),
    Pattern(LiteralIgnoreCase(<<"a", "p", "p", " ", "i", "d", ":", " ">>, <<"A", "P", "P", " ", "I", "D", ":", " ">>), <<Many(AlnumHyphen, 1)>>),
    Pattern(<<>>, FullAppId),
    Pattern(<<>>, <<Many(AlnumHyphen, 20)>>),
    Pattern(Literal(<<"C", "r", "e", "a", "t", "e", "d", " ", "a", "p", "p", " ">>), <<Many(AlnumHyphen, 1)>>),
    Pattern(Literal(<<"A", "p", "p", " ", "c", "r", "e", "a", "t", "e", "d", ":", " ">>), <<Many(AlnumHyphen, 1)>>)>>

\* the number of characters of a class from a position on
RECURSIVE Run(_, _, _)
Run(chars, pos, class) ==
  IF pos > Len(chars) \/ chars[pos] \notin class THEN 0
  ELSE 1 + Run(chars, pos + 1, class)

\* the position after the match of the elements at a position, 0 without a match
RECURSIVE MatchAt(_, _, _)
MatchAt(chars, pos, elements) ==
  IF elements = <<>> THEN pos
  ELSE IF Head(elements).many
  THEN IF Run(chars, pos, Head(elements).class) < Head(elements).least THEN 0
       ELSE MatchAt(chars, pos + Run(chars, pos, Head(elements).class), Tail(elements))
  ELSE IF pos > Len(chars) \/ chars[pos] \notin Head(elements).class THEN 0
       ELSE MatchAt(chars, pos + 1, Tail(elements))

\* output.match(pattern)[1]: the group of the leftmost match, empty without
\* a match
Capture(chars, pattern) ==
  IF \A pos \in 1..Len(chars) : MatchAt(chars, pos, pattern.elements) = 0
  THEN <<>>
  ELSE LET pos == Min({p \in 1..Len(chars) : MatchAt(chars, p, pattern.elements) # 0})
       IN SubSeq(chars, pos + pattern.group - 1,
                 MatchAt(chars, pos, pattern.elements) - 1)

\* the group of the last pattern of the list that matches
RECURSIVE LastMatch(_, _)
LastMatch(chars, list) ==
  IF list = <<>> THEN <<>>
  ELSE IF Capture(chars, list[Len(list)]) # <<>> THEN Capture(chars, list[Len(list)])
  ELSE LastMatch(chars, SubSeq(list, 1, Len(list) - 1))

\* for (const pattern of patterns) if (match && match[1]) return match[1]
RECURSIVE FirstMatch(_, _)
FirstMatch(chars, list) ==
  IF list = <<>> THEN <<>>
  ELSE IF Capture(chars, Head(list)) # <<>> THEN Capture(chars, Head(list))
  ELSE FirstMatch(chars, Tail(list))

\* \s
Whitespace == {" ", "\n", "\t"}

\* output.split(/\s+/)
RECURSIVE split(_, _)
split(chars, word) ==
  IF chars = <<>> THEN <<word>>
  ELSE IF Head(chars) \in Whitespace
  THEN IF Len(chars) > 1 /\ chars[2] \in Whitespace
       THEN split(Tail(chars), word)
       ELSE <<word>> \o split(Tail(chars), <<>>)
  ELSE split(Tail(chars), Append(word, Head(chars)))

\* word.length > 15 && /^[a-zA-Z0-9-:]+$/.test(word)
LongIdentifier(word) ==
  Len(word) > 15 /\ \A i \in 1..Len(word) : word[i] \in AlnumHyphen \cup {":"}

\* for (const word of words) if (...) return word
RECURSIVE FirstWord(_)
FirstWord(words) ==
  IF words = <<>> THEN <<>>
  ELSE IF LongIdentifier(Head(words)) THEN Head(words)
  ELSE FirstWord(Tail(words))

unknown == <<"u", "n", "k", "n", "o", "w", "n">>

extractAppId(output) ==
  IF FirstMatch(output, patterns) # <<>> THEN FirstMatch(output, patterns)
  ELSE IF FirstWord(split(output, <<>>)) # <<>> THEN FirstWord(split(output, <<>>))
  ELSE unknown

\* the words the outputs of firebase apps:create are made of here
OutputWords ==
  {<<"A", "p", "p">>,
   <<"I", "D", ":">>,
   <<"1", ":", "1", "2", "3", "4", ":", "i", "o", "s", ":", "a", "b", "c">>,
   <<"a", "b", "c", "-", "1", "2", "3">>,
   <<"a", "b", "c", "d", "e", "f", "g", "h", ":", "i", "j", "k", "l", "m", "n", "o", "p">>,
   <<"a", "b", "c", "d", "e", "f", "g", "h", "i", "j", ":", "k", "l", "m", "n", "o", "p", "q", "r", "s", "t">>,
   <<"a", "b", "c", "d", "e", "f", "g", "h", "i", "j", "k", "l", "m", "n", "o", "p", "q", "r", "s", "t", "u", "v">>,
   <<"C", "r", "e", "a", "t", "e", "d">>,
   <<"a", "p", "p">>,
   <<"i", "d", ":">>,
   <<"c", "r", "e", "a", "t", "e", "d", ":">>}

MaxWords == 3

RECURSIVE Join(_)
Join(words) ==
  IF words = <<>> THEN <<>>
  ELSE IF Len(words) = 1 THEN Head(words)
  ELSE Head(words) \o <<" ">> \o Join(Tail(words))

Outputs ==
  UNION {{Join(words) : words \in [1..n -> OutputWords]} : n \in 0..MaxWords}

ExtractInit ==
  /\ projectName = AcmeApp
  /\ NoPost
  /\ drawn = <<>>
  /\ NoPage
  /\ \E output \in Outputs : extraction = [output |-> output, appId |-> <<>>]

\* results.x = extractAppId(result.stdout)
Extract ==
  /\ extraction.appId = <<>>
  /\ extraction' = [extraction EXCEPT !.appId = extractAppId(extraction.output)]
  /\ UNCHANGED <<pipeline, concurrent, drawn, page>>

ExtractNext == Extract

ExtractSpec == ExtractInit /\ [][ExtractNext]_vars

(***************************************************************************)
(* The new-project form: the repository and branch lists, which are        *)
(* fetched, and the fields chosen from them.  A response is handled in one  *)
(* step, and responses arrive in any order.                                *)
(***************************************************************************)
\* what /api/github/repositories answers: the full names
Repositories == <<"org/tpl", "org/other">>

\* what /api/github/branches answers for a repository: the branch names
BranchesOf(repo) ==
  IF repo = "org/tpl" THEN <<"main", "dev">>
  ELSE IF repo = "org/other" THEN <<"trunk">>
  ELSE <<>>

\* the number of fetchBranches calls looked at
MaxFetches == 3

FormInit ==
  /\ projectName = AcmeApp
  /\ NoPost
  /\ drawn = <<>>
  /\ extraction = <<>>
  /\ formData = NoForm
  /\ branches = <<>>
  /\ loadingBranches = FALSE
  /\ requests = {}
  /\ repositories = <<>>
  /\ loadingRepos = TRUE

\* useEffect on formData.templateRepo: fetchBranches up to its await, or
\* setBranches([]) when no repository is chosen
TemplateRepoEffect(repo) ==
  IF repo # ""
  THEN /\ Cardinality(requests) < MaxFetches
       /\ loadingBranches' = TRUE
       /\ requests' = requests \cup {[n |-> Cardinality(requests) + 1, repo |-> repo,
                                      pending |-> TRUE]}
       /\ branches' = branches
  ELSE /\ branches' = <<>>
       /\ UNCHANGED <<loadingBranches, requests>>

\* fetchRepositories after its await: the list is set and its first
\* repository chosen, or the request has failed
RepositoriesResponse ==
  /\ loadingRepos
  /\ loadingRepos' = FALSE
  /\ \/ /\ repositories' = Repositories
        /\ formData' = [formData EXCEPT !.templateRepo = Repositories[1]]
        /\ TemplateRepoEffect(Repositories[1])
     \/ UNCHANGED <<repositories, formData, branches, loadingBranches, requests>>
  /\ UNCHANGED <<pipeline, concurrent, functions>>

\* handleInputChange('templateRepo', value), and the effect of the change
SelectRepository(value) ==
  /\ ~loadingRepos
  /\ value # formData.templateRepo
  /\ formData' = [formData EXCEPT !.templateRepo = value]
  /\ TemplateRepoEffect(value)
  /\ UNCHANGED <<pipeline, concurrent, functions, repositories, loadingRepos>>

\* fetchBranches after its await: the list is set and its first branch
\* chosen, or the list is emptied after a failure; finally the loading flag
\* is cleared
BranchesResponse(request_) ==
  /\ request_.pending
  /\ requests' = (requests \ {request_}) \cup {[request_ EXCEPT !.pending = FALSE]}
  /\ loadingBranches' = FALSE
  /\ \/ /\ branches' = BranchesOf(request_.repo)
        /\ formData' = IF Len(BranchesOf(request_.repo)) > 0
                       THEN [formData EXCEPT !.templateBranch = BranchesOf(request_.repo)[1]]
                       ELSE formData
     \/ /\ branches' = <<>>
        /\ formData' = formData
  /\ UNCHANGED <<pipeline, concurrent, functions, repositories, loadingRepos>>

\* handleInputChange('templateBranch', value)
SelectBranch(value) ==
  /\ ~loadingBranches
  /\ formData.templateRepo # ""
  /\ value # formData.templateBranch
  /\ formData' = [formData EXCEPT !.templateBranch = value]
  /\ UNCHANGED <<pipeline, concurrent, functions, branches, loadingBranches, requests,
                 repositories, loadingRepos>>

FormNext ==
  \/ RepositoriesResponse
  \/ \E value \in Range(repositories) \cup {""} : SelectRepository(value)
  \/ \E request_ \in requests : BranchesResponse(request_)
  \/ \E value \in Range(branches) \cup {""} : SelectBranch(value)

FormSpec == FormInit /\ [][FormNext]_vars

(***************************************************************************)
(* Properties of the merge.                                                *)
(***************************************************************************)
\* the runs of the merge that wrote the configuration file
Written == {run \in Range(history) : run.outcome = "written"}

DocBefore(run) == JSONparse(run.pre.content[existingConfigPath])

DocAfter(run) == JSONparse(run.post.content[existingConfigPath])

\* the key paths of a document, at every level
RECURSIVE KeyPaths(_)
KeyPaths(x) ==
  IF ~IsObject(x) THEN {}
  ELSE UNION {{<<m.k>>} \cup {<<m.k>> \o path : path \in KeyPaths(m.v)} :
                m \in Range(x.members)}

RECURSIVE GetPath(_, _)
GetPath(x, path) ==
  IF path = <<>> THEN x ELSE GetPath(Get(x, Head(path)), Tail(path))

Platforms == {"ios", "android", "web"}

Keys(x) == {m.k : m \in Range(x.members)}

FirebaseKeys ==
  {"apiKey", "appId", "messagingSenderId", "projectId", "storageBucket",
   "authDomain", "measurementId", "iosBundleId"}

\* the keys the merge may change
Changeable(path) ==
  \/ path = <<"app", "name">>
  \/ /\ Len(path) = 3
     /\ path[1] = "firebase"
     /\ path[2] \in Platforms
     /\ path[3] \in FirebaseKeys

C3_NoKeyInserted ==
  \A run \in Written :
    \A platform \in Platforms :
      Keys(GetPath(DocAfter(run), <<"firebase", platform>>))
        \subseteq Keys(GetPath(DocBefore(run), <<"firebase", platform>>))

\* the field of a platform's downloaded payload that a key is taken from,
\* undefined when the payload does not hold it
PayloadField(files, platform, key) ==
  IF platform = "ios"
  THEN LET match == Match(files.content[iosConfigPath],
                          IF key = "apiKey" THEN "API_KEY"
                          ELSE IF key = "appId" THEN "GOOGLE_APP_ID"
                          ELSE "GCM_SENDER_ID")
       IN IF match = Null THEN Undefined ELSE match
  ELSE IF platform = "android"
  THEN GetPath(files.content[androidConfigPath].value,
               IF key = "apiKey" THEN <<"project_info", "api_key">>
               ELSE IF key = "appId"
               THEN <<"client", "0", "client_info", "mobilesdk_app_id">>
               ELSE <<"project_info", "project_number">>)
  ELSE LET match == Match(files.content[webConfigPath], key)
       IN IF match = Null THEN Undefined ELSE match

\* C4: an existing apiKey, messagingSenderId or appId of a platform section
\* whose field the platform's payload does not hold keeps its value; it is
\* never set to null.
C4_MissingFieldKeepsValue ==
  \A run \in Written :
    \A platform \in Platforms :
      \A key \in {"apiKey", "messagingSenderId", "appId"} :
        (/\ GetPath(DocBefore(run), <<"firebase", platform, key>>) # Undefined
         /\ PayloadField(run.pre, platform, key) = Undefined)
          => GetPath(DocAfter(run), <<"firebase", platform, key>>)
               = GetPath(DocBefore(run), <<"firebase", platform, key>>)

C7_Idempotent ==
  \A i \in 2..Len(history) :
    readFileSync(history[i].post, existingConfigPath)
      = readFileSync(history[i - 1].post, existingConfigPath)

\* two runs, the first of which changed the document
C7_Witness ==
  /\ Len(history) >= 2
  /\ history[1].outcome = "written"
  /\ history[2].outcome = "written"
  /\ GetPath(DocBefore(history[1]), <<"firebase", "ios", "storageBucket">>) = Str("old")
  /\ GetPath(DocAfter(history[1]), <<"firebase", "ios", "storageBucket">>)
       = Str("acme-app-x1y2z3.firebasestorage.app")
  /\ GetPath(DocAfter(history[1]), <<"firebase", "web", "measurementId">>) = Str("G-1234")

(***************************************************************************)
(* Properties of the pipeline.                                             *)
(***************************************************************************)
\* C8: when an invocation that created its workspace has answered, with
\* success or with a fatal failure of any stage, the workspace is gone.
C8_WorkspaceRemoved ==
  (pc = "responded" /\ workspace # "none")
    => /\ workspace = "removed"
       /\ \A path \in Paths : ~existsSync(fs, path)

\* an invocation that failed after it had cloned the template
C8_Witness ==
  /\ pc = "responded"
  /\ response.status = 500
  /\ "project" \in Range(stages)
  /\ workspace = "removed"

\* C9: after the Firebase project and apps are created, the response of an
\* invocation that a later stage fails still holds the project id and the
\* app ids created.
C9_IdentifiersRetained ==
  (pc = "responded" /\ response.status = 500 /\ created.project # "")
    => /\ "firebaseProjectId" \in DOMAIN response.body
       /\ response.body.firebaseProjectId = created.project
       /\ "appIds" \in DOMAIN response.body

AllFailed == \A i \in 1..Len(attempts) : ~attempts[i].ok

\* C10: createFirebaseProject makes at most 3 attempts, stops at the first
\* that succeeds and returns the id of that attempt, waits only after a
\* failed attempt that another follows, and throws, which ends the pipeline
\* with the workspace removed, only when 3 attempts have failed.
C10_ProjectCreationRetries ==
  /\ Len(attempts) <= 3
  /\ \A i \in 1..(Len(attempts) - 1) : ~attempts[i].ok
  /\ (attempts # <<>> /\ attempts[Len(attempts)].ok)
       => firebaseProjectId = attempts[Len(attempts)].id
  /\ AllFailed => firebaseProjectId = ""
  /\ Len(delays) \in {Len(attempts) - 1, Len(attempts)}
  /\ \A j \in 1..Len(delays) : delays[j] = j /\ ~attempts[j].ok /\ j < 3
  /\ (pc = "responded" /\ stages # <<>> /\ stages[Len(stages)] = "project")
       <=> (Len(attempts) = 3 /\ AllFailed)
  /\ (Len(attempts) = 3 /\ AllFailed)
       => response.status = 500 /\ workspace = "removed"

\* the third attempt succeeded, with another id than the first
C10_Witness ==
  /\ Len(attempts) = 3
  /\ attempts[3].ok
  /\ attempts[3].id # attempts[1].id
  /\ delays = <<1, 2>>
  /\ firebaseProjectId = attempts[3].id

(***************************************************************************)
(* Properties of the stages.                                               *)
(***************************************************************************)
Last(seq) == seq[Len(seq)]

AppCommands ==
  <<"firebase apps:create ios", "firebase apps:create android", "firebase apps:create web">>

\* the firebase apps:create commands issued, in order
AppCalls == SelectSeq(calls, LAMBDA command : command \in Range(AppCommands))

\* createFirebaseApps has returned or thrown
AppsStageOver == "apps" \in Range(stages) /\ pc \notin {"apps-android", "apps-web"}

AppsStageThrew == pc = "responded" /\ Last(stages) = "apps"

AnyAppKnown == \E platform \in Platforms : appIds[platform] # "unknown"

\* C11: the app-creation stage issues the iOS, Android and Web creations in
\* that order whatever the earlier ones gave; a platform whose creation
\* failed has the identifier 'unknown'; the stage returns iff some identifier
\* is not 'unknown' and throws, ending the invocation, iff all three are.
C11_AppCreationTolerance ==
  /\ \E n \in 0..3 : AppCalls = SubSeq(AppCommands, 1, n)
  /\ \A platform \in Platforms :
       created.apps[platform] = "" => appIds[platform] = "unknown"
  /\ AppsStageOver =>
       /\ AppCalls = AppCommands
       /\ AppsStageThrew <=> ~AnyAppKnown
       /\ AppsStageThrew =>
            response = ErrorResponse(500, "Failed to create any Firebase apps")
       /\ ~AppsStageThrew => "firestore" \in Range(stages) \/ pc = "firestore"

\* the iOS and Android creations failed, the Web creation followed and
\* succeeded, and the pipeline went on
C11_Witness ==
  /\ pc = "firestore"
  /\ AppCalls = AppCommands
  /\ created.apps = [ios |-> "", android |-> "", web |-> AppId("web")]
  /\ appIds = [ios |-> "unknown", android |-> "unknown", web |-> AppId("web")]

\* C12: when the iOS creation fails, the Android and Web creations succeed
\* and no stage fails fatally, the response has success = true and carries
\* the identifiers, iOS 'unknown' and Android and Web known, and the log of
\* the progress messages.
C12_DegradedResultReported ==
  (/\ pc = "responded"
   /\ "firestore" \in Range(stages)
   /\ response.status = 200
   /\ appIds = [ios |-> "unknown", android |-> AppId("android"), web |-> AppId("web")])
    => /\ response.body.success
       /\ "appIds" \in DOMAIN response.body
       /\ "log" \in DOMAIN response.body

FatalStages == {"clone", "project", "apps"}

\* C13: an invocation is aborted only by the clone, by the third failure of
\* the project creation or by the app creation without any app; the failure
\* of any other stage is tolerated.
C13_OnlyThreeFatalStages ==
  (pc = "responded" /\ response.status = 500 /\ stages # <<>>)
    => Last(stages) \in FatalStages

StageOrder ==
  <<"clone", "rename", "project", "apps", "firestore", "download", "merge",
    "commit", "repo", "tag">>

\* C14: the stages start in the order clone, identifier substitution,
\* project creation, app creation, database provisioning, config download,
\* config merge, commit, private repository, tag, one at a time, and none
\* starts once the invocation has answered.
C14_StagesInOrder ==
  /\ [](\E n \in 0..Len(StageOrder) : stages = SubSeq(StageOrder, 1, n))
  /\ [][/\ stages' # stages => stages' = Append(stages, StageOrder[Len(stages) + 1])
        /\ (pc = "responded" \/ response # NoResponse) => stages' = stages]_vars

\* an invocation that went through the ten stages and answered
C14_Witness ==
  /\ pc = "responded"
  /\ response.status = 200
  /\ stages = StageOrder

\* C15: a request whose clone is started has its five fields non-empty and
\* of their patterns, and a request that is rejected has no workspace and
\* has made no external call.
C15_RequestValidated ==
  /\ "clone" \in Range(stages) =>
       /\ ValidProjectName(projectName)
       /\ ValidProjectName(orgDomain)
       /\ SchemaRepo(request.templateRepo)
       /\ request.templateBranch # <<>>
       /\ SchemaEmail(request.firebaseAccount)
  /\ response.status = 400 => workspace = "none" /\ calls = <<>>

\* the text the substitution is to give: the package identifier becomes
\* com.<orgDomain>.<projectName>, every other placeholder <projectName>
Substituted(pieces, name, domain) ==
  ReplaceAll(ReplaceAll(pieces, PackagePattern, <<BundleId(domain, name)>>),
             PlaceholderPattern, <<name>>)

\* C16: after the identifier substitution every listed file that the
\* template holds has its package identifiers replaced by
\* com.<orgDomain>.<projectName> and its other placeholders by <projectName>.
C16_IdentifiersReplaced ==
  pc = "config-files" =>
    \A file \in Range(filesToUpdate) :
      template[file].fmt = "text" =>
        Pieces(fs.content[file])
          = Substituted(Pieces(template[file]), Text(projectName), Text(orgDomain))

\* C17: the template repository, the clone's origin, receives no push of a
\* branch, a commit or a tag.
C17_TemplateNeverPushed ==
  \A push \in pushes : push.to # TemplateUrl(request)

(***************************************************************************)
(* Properties of concurrent invocations.                                   *)
(***************************************************************************)
Running(i) == invocations[i].pc \notin {"start", "done"}

\* C18: every file operation and every git command of an invocation acts
\* on the workspace of that invocation.
C18_OwnWorkspaceOnly ==
  \A effect \in effects : effect.in = invocations[effect.by].tempDir

\* C19: two invocations that run at the same time have distinct workspaces,
\* and the workspace of a running invocation exists.
C19_DistinctWorkspaces ==
  /\ \A i, j \in DOMAIN invocations :
       (i # j /\ Running(i) /\ Running(j))
         => invocations[i].tempDir # invocations[j].tempDir
  /\ \A i \in DOMAIN invocations : Running(i) => invocations[i].tempDir \in dirs

\* C20: without a valid GITHUB_PAT an accepted invocation makes no request
\* to the hosting API, adds no remote and pushes nothing, has the empty
\* repository URL, and answers with success.
C20_NoTokenSkipsRepository ==
  (pc = "responded" /\ response.status # 400
     /\ githubToken \in {"", "your_github_personal_access_token_here"})
    => /\ "POST https://api.github.com/user/repos" \notin Range(calls)
       /\ remotes["new-origin"] = ""
       /\ pushes = {}
       /\ newRepoUrl = ""
       /\ response.body.success

\* C21: a failure of the tag stage, at the look for the dated name, at the
\* making of the tag or at its push, never ends the invocation with an error:
\* the stage is always followed by the clean-up, and the clean-up by the
\* success response with the workspace removed.
C21_TagFailureTolerated ==
  [][/\ pc = "tag" => (pc' = "cleanup" /\ response' = response /\ workspace' = workspace)
     /\ pc = "cleanup" => (/\ pc' = "responded"
                           /\ workspace' = "removed"
                           /\ response'.status = 200
                           /\ response'.body.success)]_vars

\* the tag could not be made, and the invocation has answered with success
C21_Witness ==
  /\ pc = "responded"
  /\ response.body.success
  /\ Last(stages) = "tag"
  /\ tags.made = {}
  /\ workspace = "removed"

\* C28: the baseBuildTag of a success response is the name of the tag the tag
\* stage has made in the clone.
C28_ResultNamesTheTagMade ==
  (pc = "responded" /\ response.body.success)
    => tags.made = {response.body.baseBuildTag}

\* C29: when the hosting API has created the private repository, the success
\* response's newRepoUrl is that repository's and the clone's branch has been
\* pushed to it; newRepoUrl is empty only when no repository was created.
C29_RepositoryReported ==
  (pc = "responded" /\ response.body.success)
    => /\ created.repository # ""
            => /\ response.body.newRepoUrl = created.repository
               /\ [to |-> CloneUrl(Text(projectName)), ref |-> LocalBranch(request)] \in pushes
       /\ response.body.newRepoUrl = "" => created.repository = ""

\* the path a platform's payload is saved at
ConfigPath(platform) ==
  IF platform = "ios" THEN iosConfigPath
  ELSE IF platform = "android" THEN androidConfigPath ELSE webConfigPath

DownloadSteps == <<"download", "download-android", "download-web", "merge">>

DownloadStageOver ==
  /\ \E i \in 1..Len(stages) : stages[i] = "download"
  /\ pc \notin {"download-android", "download-web"}

\* C24: in the download stage a platform's download is attempted exactly
\* when its app identifier is not 'unknown'; no step of the stage ends the
\* invocation or skips the steps for the other platforms; and a platform's
\* file is written at its path exactly when its download gave a non-empty
\* output.
C24_DownloadsIndependent ==
  /\ [](DownloadStageOver
          => \A platform \in {"ios", "android", "web"} :
               /\ ("firebase apps:sdkconfig " \o platform) \in Range(calls)
                    <=> appIds[platform] # "unknown"
               /\ ConfigPath(platform) \in Range(fs.writes)
                    <=> (configs[platform] # NoFile /\ configs[platform] # EmptyOutput))
  /\ [][\A i \in 1..3 :
          pc = DownloadSteps[i]
            => (pc' = DownloadSteps[i + 1] /\ response' = response /\ workspace' = workspace)]_vars

\* the iOS download failed, the Android payload was saved, and no download
\* was attempted for the web app, which has no identifier
C24_Witness ==
  /\ DownloadStageOver
  /\ appIds.ios # "unknown" /\ configs.ios = NoFile
  /\ configs.android = GoogleServices
  /\ fs.content[androidConfigPath] = GoogleServices
  /\ appIds.web = "unknown"
  /\ pc = "merge"

\* the stage threw at a command it runs before it looks at the staged tree
FailedBeforeCheck(answer) ==
  /\ answer.status = 500
  /\ answer.body.error \in {"Failed to commit and push changes: git status",
                            "Failed to commit and push changes: git add ."}

\* C25: the commit stage runs git commit exactly when the tree differs from
\* the last commit after staging; with a clean tree it makes no commit, ends
\* without an error and the handler goes on to the repository stage.
C25_CommitOnlyWhenChanged ==
  [][pc = "commit" =>
       /\ "git commit" \in Range(SubSeq(calls', Len(calls) + 1, Len(calls')))
            <=> (fs.content # head /\ ~FailedBeforeCheck(response'))
       /\ (fs.content = head /\ ~FailedBeforeCheck(response'))
            => (pc' = "repo" /\ response' = response /\ head' = head)]_vars

\* the tree was clean after staging: no commit was made and the repository
\* stage is next
C25_Witness ==
  /\ pc = "repo"
  /\ Last(stages) = "commit"
  /\ fs.content = head
  /\ "git commit" \notin Range(calls)
  /\ Last(calls) = "git status"

LowerAlnum == LowerAlnumHyphen \ {"-"}

\* C22: the project id of every creation attempt is the project name, a
\* hyphen and six characters of [a-z0-9]; the display name is the project
\* name when that has four characters or more, and otherwise a longer name
\* of four characters or more that begins with it.
C22_ProjectIdShape ==
  \A i \in 1..Len(drawn) :
    /\ Len(drawn[i].id) = Len(projectName) + 7
    /\ SubSeq(drawn[i].id, 1, Len(projectName) + 1) = projectName \o <<"-">>
    /\ \A j \in (Len(projectName) + 2)..Len(drawn[i].id) : drawn[i].id[j] \in LowerAlnum
    /\ Len(drawn[i].displayName) >= 4
    /\ Len(projectName) >= 4 => drawn[i].displayName = projectName
    /\ SubSeq(drawn[i].displayName, 1, Len(projectName)) = projectName

\* the patterns of the list that match the output, by their place in it
Matching(output) == {n \in 1..Len(patterns) : Capture(output, patterns[n]) # <<>>}

\* the places of the words that are long identifiers
LongWords(output) ==
  {n \in 1..Len(split(output, <<>>)) : LongIdentifier(split(output, <<>>)[n])}

\* C23, as stated: extractAppId returns the capture of the first pattern of
\* the list that matches; when none matches, the longest of the words that
\* have the shape of an identifier; and 'unknown' only when there is neither.
C23_LongestWordFallback ==
  extraction.appId # <<>> =>
    IF Matching(extraction.output) # {}
    THEN extraction.appId = Capture(extraction.output, patterns[Min(Matching(extraction.output))])
    ELSE IF LongWords(extraction.output) # {}
    THEN \E n \in LongWords(extraction.output) :
           /\ extraction.appId = split(extraction.output, <<>>)[n]
           /\ \A m \in LongWords(extraction.output) :
                Len(split(extraction.output, <<>>)[m]) <= Len(extraction.appId)
    ELSE extraction.appId = unknown

\* C23, amended: extractAppId returns the capture of the first pattern of the
\* list that matches; when none matches, the first of the words that are
\* longer than 15 characters and made of letters, digits, hyphens and colons;
\* and 'unknown' only when there is neither.
C23_FirstWordFallback ==
  extraction.appId # <<>> =>
    IF Matching(extraction.output) # {}
    THEN extraction.appId = Capture(extraction.output, patterns[Min(Matching(extraction.output))])
    ELSE IF LongWords(extraction.output) # {}
    THEN extraction.appId = split(extraction.output, <<>>)[Min(LongWords(extraction.output))]
    ELSE extraction.appId = unknown

\* no pattern matches an output of two long words, the second the longer, and
\* the first is what was extracted
C23_Witness ==
  /\ extraction.output = Join(<<<<"a", "b", "c", "d", "e", "f", "g", "h", ":", "i", "j", "k", "l", "m", "n", "o", "p">>, <<"a", "b", "c", "d", "e", "f", "g", "h", "i", "j", ":", "k", "l", "m", "n", "o", "p", "q", "r", "s", "t">>>>)
  /\ Matching(extraction.output) = {}
  /\ extraction.appId = <<"a", "b", "c", "d", "e", "f", "g", "h", ":", "i", "j", "k", "l", "m", "n", "o", "p">>

\* the platform sections a document has under firebase
Subsections(doc) == {platform \in Platforms : GetPath(doc, <<"firebase", platform>>) # Undefined}

Failed == {run \in Range(history) : run.outcome = "error"}

\* C27: when a step of the merge throws before the write-back, the
\* configuration file and every other file are as before the merge, nothing
\* is written, the updates made to the document in memory are lost with it,
\* and the handler goes on to the commit stage.
C27_MergeAllOrNothing ==
  /\ [](\A run \in Failed : run.post = run.pre)
  /\ [][pc = "merge" => (pc' = "commit" /\ response' = response /\ workspace' = workspace)]_vars

\* the Android payload did not parse after the iOS section had been updated
\* in memory: the file is as it was and the commit stage is next
C27_Witness ==
  /\ pc = "commit"
  /\ \E run \in Failed :
       /\ run.pre.content[iosConfigPath] = IosPlist
       /\ run.pre.content[androidConfigPath] = GarbageOutput
       /\ GetPath(DocBefore(run), <<"firebase", "ios", "apiKey">>) = Str("old")
       /\ run.post.content[existingConfigPath] = run.pre.content[existingConfigPath]
  /\ appIds.ios # "unknown"

\* no request of the form is pending
Settled == ~loadingRepos /\ \A request_ \in requests : ~request_.pending

\* C30: once every request of the form has been answered, the branch list
\* displayed and the branch chosen are branches of the repository chosen.
C30_BranchesOfChosenRepository ==
  Settled =>
    /\ Range(branches) \subseteq Range(BranchesOf(formData.templateRepo))
    /\ formData.templateBranch # ""
         => formData.templateBranch \in Range(BranchesOf(formData.templateRepo))

====
